---------------------------- MODULE Spec2Model ----------------------------
(***************************************************************************)
(* A model of the finite-state-machine core of cky: range-set transitions, *)
(* the NFA graph, the composition algebra (concat / union / Kleene star),  *)
(* the nondeterministic simulator, the search driver, the lexer, the       *)
(* textual persistence of machines and the regular expression parser.      *)
(*                                                                         *)
(* A machine is a record [start, transitions, accepting].  State k of the  *)
(* C code (zero based) owns the transition list transitions[k + 1].  A     *)
(* transition is [type, start, end, dest] where start and end are the      *)
(* parallel, NUL-terminated wchar_t arrays of the C struct, kept here      *)
(* without their terminator.  Characters are their integer codes.          *)
(***************************************************************************)
EXTENDS Integers, Sequences, FiniteSets, TLC

VARIABLES
  first,      \* algebra harness: the machine composed in place
  second,     \* algebra harness: the right-hand operand
  last,       \* algebra harness: the last operation and its operands
  srch,       \* fsm_search: the locals of the running search
  lex,        \* lexer: the loaded pattern machines (smb_lex.patterns)
  lexrun,     \* lexer: input, simulation and result of the running yylex
  io,         \* persistence: the machine written, the text, the machine read
  chk,        \* edge and simulator checks: the arguments and the value returned
  re          \* regex: the pattern, the machine parsed from it, the input tried

vars == <<first, second, last, srch, lex, lexrun, io, chk, re>>

----------------------------------------------------------------------------
(* Bounds of the model *)

\* longest input string / search text the harness hands to the code
MaxLen == 3
\* most states the two machines of the algebra harness hold together
MaxStates == 7

----------------------------------------------------------------------------
(* Program constants (fsm.h) *)

FSM_TRANS_POSITIVE == 0
FSM_TRANS_NEGATIVE == 1
FSM_SIM_ACCEPTING == 0
FSM_SIM_NOT_ACCEPTING == 1
FSM_SIM_REJECTED == 2
FSM_SIM_ACCEPTED == 3
\* (wchar_t)-2 with the signed 32-bit wchar_t of the build
EPSILON == -2

\* the input characters the harness uses: 'a' and 'b'
Alphabet == {97, 98}

\* all strings over S of length at most n
RECURSIVE StringsUpTo(_, _)
StringsUpTo(S, n) ==
  IF n = 0 THEN {<<>>}
  ELSE LET shorter == StringsUpTo(S, n - 1)
       IN shorter \cup {Append(w, c) : w \in {x \in shorter : Len(x) = n - 1}, c \in S}

Inputs == StringsUpTo(Alphabet, MaxLen)

\* al_index_of(list, d) != -1
InList(list, d) == \E i \in 1..Len(list) : list[i] = d

----------------------------------------------------------------------------
(* fsm_trans: datastructs.c *)

\* fsm_trans_create_single: one range, no validation beyond a diagnostic
fsm_trans_create_single(start, end, type, dest) ==
  [type |-> type, start |-> <<start>>, end |-> <<end>>, dest |-> dest]

\* fsm_trans_create followed by the caller's fill of the n ranges
fsm_trans_create(starts, ends, type, dest) ==
  [type |-> type, start |-> starts, end |-> ends, dest |-> dest]

\* the number of ranges the C loops see: the arrays end at the first NUL
RangeCount(arr) ==
  IF \E i \in 1..Len(arr) : arr[i] = 0
  THEN (CHOOSE i \in 1..Len(arr) : arr[i] = 0 /\ \A j \in 1..(i - 1) : arr[j] # 0) - 1
  ELSE Len(arr)

\* fsm_trans_check with a bug: a character inside a range is accepted
\* whatever the type of the transition
fsm_trans_check_hit_ignores_type(ft, c) ==
  LET RECURSIVE loop(_)
      loop(i) ==
        IF i > Len(ft.start) \/ i > Len(ft.end) \/ ft.start[i] = 0 \/ ft.end[i] = 0
        THEN ft.type # FSM_TRANS_POSITIVE
        ELSE IF c >= ft.start[i] /\ c <= ft.end[i]
             THEN TRUE
             ELSE loop(i + 1)
  IN loop(1)

\* fsm_trans_check: walk the ranges until a NUL in either array
fsm_trans_check(ft, c) ==
  LET RECURSIVE loop(_)
      loop(i) ==
        IF i > Len(ft.start) \/ i > Len(ft.end) \/ ft.start[i] = 0 \/ ft.end[i] = 0
        THEN ft.type # FSM_TRANS_POSITIVE
        ELSE IF c >= ft.start[i] /\ c <= ft.end[i]
             THEN ft.type = FSM_TRANS_POSITIVE
             ELSE loop(i + 1)
  IN loop(1)

\* fsm_trans_copy with a bug: no new object, the transition itself is
\* handed back
fsm_trans_copy_same_object(ft) == ft

\* fsm_trans_copy: wcslen(ft->start) ranges are copied
fsm_trans_copy(ft) ==
  LET rangeSize == RangeCount(ft.start)
  IN [type |-> ft.type,
      start |-> SubSeq(ft.start, 1, rangeSize),
      end |-> SubSeq(ft.end, 1, rangeSize),
      dest |-> ft.dest]

----------------------------------------------------------------------------
(* fsm: datastructs.c *)

\* fsm_create / fsm_init
fsm_create == [start |-> -1, transitions |-> <<>>, accepting |-> <<>>]

\* fsm_add_state: the machine after the call (the index is NumStates - 1)
fsm_add_state(f, accepting) ==
  LET index == Len(f.transitions)
  IN [f EXCEPT !.transitions = Append(@, <<>>),
               !.accepting = IF accepting THEN Append(@, index) ELSE @]

NumStates(f) == Len(f.transitions)

\* fsm_add_trans
fsm_add_trans(f, state, ft) ==
  [f EXCEPT !.transitions[state + 1] = Append(@, ft)]

\* fsm_add_single
fsm_add_single(f, from, to, start, end, type) ==
  fsm_add_trans(f, from, fsm_trans_create_single(start, end, type, to))

\* fsm_create_single_char with a bug: the start state is accepting too
fsm_create_single_char_start_accepting(character) ==
  LET f0 == fsm_add_state(fsm_create, TRUE)
      f1 == fsm_add_state(f0, TRUE)
      f2 == fsm_add_single(f1, 0, 1, character, character, FSM_TRANS_POSITIVE)
  IN [f2 EXCEPT !.start = 0]

\* fsm_create_single_char
fsm_create_single_char(character) ==
  LET f0 == fsm_add_state(fsm_create, FALSE)
      f1 == fsm_add_state(f0, TRUE)
      f2 == fsm_add_single(f1, 0, 1, character, character, FSM_TRANS_POSITIVE)
  IN [f2 EXCEPT !.start = 0]

----------------------------------------------------------------------------
(* The simulator: fsm/simulation.c *)

\* fsm_sim_nondet_epsilon_closure: breadth-first over the transitions that
\* fsm_trans_check accepts for EPSILON
fsm_sim_nondet_epsilon_closure(f, state) ==
  LET RECURSIVE bfs(_, _)
      bfs(visit_queue, closure) ==
        IF Len(visit_queue) = 0 THEN closure
        ELSE LET d == Head(visit_queue)
                 popped == Tail(visit_queue)
                 marked == Append(closure, d)
                 trans_list == f.transitions[d + 1]
                 RECURSIVE scan(_, _)
                 scan(i, queue) ==
                   IF i > Len(trans_list) THEN queue
                   ELSE LET ft == trans_list[i]
                        IN IF /\ fsm_trans_check(ft, EPSILON)
                              /\ ~InList(queue, ft.dest)
                              /\ ~InList(marked, ft.dest)
                           THEN scan(i + 1, Append(queue, ft.dest))
                           ELSE scan(i + 1, queue)
             IN bfs(scan(1, popped), marked)
  IN bfs(<<state>>, <<>>)

\* fsm_sim_nondet_union_and_delete: first, with the new elements of second
fsm_sim_nondet_union_and_delete(list1, list2) ==
  LET RECURSIVE loop(_, _)
      loop(i, acc) ==
        IF i > Len(list2) THEN acc
        ELSE IF InList(acc, list2[i]) THEN loop(i + 1, acc)
             ELSE loop(i + 1, Append(acc, list2[i]))
  IN loop(1, list1)

\* fsm_sim_nondet_non_empty_intersection
fsm_sim_nondet_non_empty_intersection(list1, list2) ==
  \E i \in 1..Len(list1) : InList(list2, list1[i])

\* fsm_sim_nondet_begin: a simulation is [f, curr, input]; input is the
\* rest of the string, the C pointer into it
fsm_sim_nondet_begin(f, input) ==
  [f |-> f, curr |-> fsm_sim_nondet_epsilon_closure(f, f.start), input |-> input]

\* fsm_sim_nondet_state with a bug: the empty current list is not
\* looked at first
fsm_sim_nondet_state_no_empty_test(s) ==
  IF fsm_sim_nondet_non_empty_intersection(s.f.accepting, s.curr)
  THEN (IF s.input = <<>> THEN FSM_SIM_ACCEPTED ELSE FSM_SIM_ACCEPTING)
  ELSE (IF s.input = <<>> THEN FSM_SIM_REJECTED ELSE FSM_SIM_NOT_ACCEPTING)

\* fsm_sim_nondet_state
fsm_sim_nondet_state(s) ==
  IF Len(s.curr) = 0 THEN FSM_SIM_REJECTED
  ELSE IF fsm_sim_nondet_non_empty_intersection(s.f.accepting, s.curr)
       THEN (IF s.input = <<>> THEN FSM_SIM_ACCEPTED ELSE FSM_SIM_ACCEPTING)
       ELSE (IF s.input = <<>> THEN FSM_SIM_REJECTED ELSE FSM_SIM_NOT_ACCEPTING)

\* The character under the input pointer: the terminator at the end
CurrentChar(input) == IF input = <<>> THEN 0 ELSE Head(input)

\* the first half of fsm_sim_nondet_step: the destinations of the
\* transitions out of curr that accept character c, each once
StepDestinations(f, curr, c) ==
  LET RECURSIVE states(_, _)
      states(i, next) ==
        IF i > Len(curr) THEN next
        ELSE LET trans == f.transitions[curr[i] + 1]
                 RECURSIVE out(_, _)
                 out(j, nx) ==
                   IF j > Len(trans) THEN nx
                   ELSE IF fsm_trans_check(trans[j], c) /\ ~InList(nx, trans[j].dest)
                        THEN out(j + 1, Append(nx, trans[j].dest))
                        ELSE out(j + 1, nx)
             IN states(i + 1, out(1, next))
  IN states(1, <<>>)

\* the second half of fsm_sim_nondet_step: union in the epsilon closure of
\* each of the `original` first elements
StepClosures(f, next) ==
  LET original == Len(next)
      RECURSIVE loop(_, _)
      loop(i, acc) ==
        IF i > original THEN acc
        ELSE loop(i + 1,
                  fsm_sim_nondet_union_and_delete(
                    acc, fsm_sim_nondet_epsilon_closure(f, acc[i])))
  IN loop(1, next)

\* fsm_sim_nondet_step with a bug: from an empty current list the
\* simulation is taken up again at the start state
fsm_sim_nondet_step_restarts(s) ==
  LET from == IF s.curr = <<>> THEN <<s.f.start>> ELSE s.curr
  IN [s EXCEPT !.curr = StepClosures(s.f, StepDestinations(s.f, from, CurrentChar(s.input))),
               !.input = IF s.input = <<>> THEN <<>> ELSE Tail(s.input)]

\* fsm_sim_nondet_step
fsm_sim_nondet_step(s) ==
  [s EXCEPT !.curr = StepClosures(s.f, StepDestinations(s.f, s.curr, CurrentChar(s.input))),
            !.input = IF s.input = <<>> THEN <<>> ELSE Tail(s.input)]

\* fsm_sim_nondet: begin, then step until REJECTED or ACCEPTED
fsm_sim_nondet(f, input) ==
  LET RECURSIVE run(_)
      run(sim) ==
        LET res == fsm_sim_nondet_state(sim)
        IN IF res # FSM_SIM_REJECTED /\ res # FSM_SIM_ACCEPTED
           THEN run(fsm_sim_nondet_step(sim))
           ELSE res # FSM_SIM_REJECTED
  IN run(fsm_sim_nondet_begin(f, input))

----------------------------------------------------------------------------
(* The composition algebra: regex.c *)

\* fsm_copy_trans with the offset taken from the wrong machine (the length
\* of src instead of the length of dest)
fsm_copy_trans_src_offset(dest, src) ==
  LET offset == Len(dest.transitions)
      wrong == Len(src.transitions)
      RECURSIVE states(_, _)
      states(i, d) ==
        IF i >= Len(src.transitions) THEN d
        ELSE LET added == fsm_add_state(d, FALSE)
                 list == src.transitions[i + 1]
                 RECURSIVE copy(_, _)
                 copy(j, dd) ==
                   IF j > Len(list) THEN dd
                   ELSE LET new == fsm_trans_copy(list[j])
                        IN copy(j + 1,
                                fsm_add_trans(dd, i + offset,
                                              [new EXCEPT !.dest = new.dest + wrong]))
             IN states(i + 1, copy(1, added))
  IN states(0, dest)

\* fsm_copy_trans: append a copy of every state of src to dest, each copied
\* transition's destination moved by the offset
fsm_copy_trans(dest, src) ==
  LET offset == Len(dest.transitions)
      RECURSIVE states(_, _)
      states(i, d) ==
        IF i >= Len(src.transitions) THEN d
        ELSE LET added == fsm_add_state(d, FALSE)
                 list == src.transitions[i + 1]
                 RECURSIVE copy(_, _)
                 copy(j, dd) ==
                   IF j > Len(list) THEN dd
                   ELSE LET new == fsm_trans_copy(list[j])
                        IN copy(j + 1,
                                fsm_add_trans(dd, i + offset,
                                              [new EXCEPT !.dest = new.dest + offset]))
             IN states(i + 1, copy(1, added))
  IN states(0, dest)

\* the loop of fsm_concat and fsm_kleene over the accepting list: an epsilon
\* transition from each accepting state of f to state `to`
EpsilonFromAccepting(f, to) ==
  LET RECURSIVE loop(_, _)
      loop(i, g) ==
        IF i > Len(f.accepting) THEN g
        ELSE loop(i + 1,
                  fsm_add_trans(g, f.accepting[i],
                                fsm_trans_create_single(EPSILON, EPSILON,
                                                        FSM_TRANS_POSITIVE, to)))
  IN loop(1, f)

\* the accepting list of `second`, each index moved by the offset
ShiftedAccepting(f, offset) ==
  [i \in 1..Len(f.accepting) |-> f.accepting[i] + offset]

\* fsm_concat that forgets to replace the accepting list of `first`
fsm_concat_keeps_accepting(a, b) ==
  LET offset == Len(a.transitions)
      linked == EpsilonFromAccepting(a, b.start + offset)
      copied == fsm_copy_trans(linked, b)
  IN [copied EXCEPT !.accepting = @ \o ShiftedAccepting(b, offset)]

\* fsm_concat: `first` after the call
fsm_concat(a, b) ==
  LET offset == Len(a.transitions)
      linked == EpsilonFromAccepting(a, b.start + offset)
      copied == fsm_copy_trans(linked, b)
  IN [copied EXCEPT !.accepting = ShiftedAccepting(b, offset)]

\* fsm_union that forgets the accepting states of `second`
fsm_union_drops_accepting(a, b) ==
  LET offset == Len(a.transitions)
      copied == fsm_copy_trans(a, b)
      newStart == Len(copied.transitions)
      added == fsm_add_state(copied, FALSE)
      fsTrans == fsm_trans_create_single(EPSILON, EPSILON, FSM_TRANS_POSITIVE, a.start)
      ssTrans == fsm_trans_create_single(EPSILON, EPSILON, FSM_TRANS_POSITIVE,
                                         b.start + offset)
      wired == fsm_add_trans(fsm_add_trans(added, newStart, fsTrans), newStart, ssTrans)
  IN [wired EXCEPT !.start = newStart]

\* fsm_union: `first` after the call
fsm_union(a, b) ==
  LET offset == Len(a.transitions)
      copied == fsm_copy_trans(a, b)
      newStart == Len(copied.transitions)
      added == fsm_add_state(copied, FALSE)
      fsTrans == fsm_trans_create_single(EPSILON, EPSILON, FSM_TRANS_POSITIVE, a.start)
      ssTrans == fsm_trans_create_single(EPSILON, EPSILON, FSM_TRANS_POSITIVE,
                                         b.start + offset)
      wired == fsm_add_trans(fsm_add_trans(added, newStart, fsTrans), newStart, ssTrans)
  IN [wired EXCEPT !.accepting = @ \o ShiftedAccepting(b, offset),
                   !.start = newStart]

\* fsm_kleene that adds the new start state as accepting and appends it
\* to the accepting list once more
fsm_kleene_start_accepting_twice(f) ==
  LET newStart == Len(f.transitions)
      added == fsm_add_state(f, TRUE)
      newTrans == fsm_trans_create_single(EPSILON, EPSILON, FSM_TRANS_POSITIVE, f.start)
      entered == fsm_add_trans(added, newStart, newTrans)
      looped == EpsilonFromAccepting([entered EXCEPT !.accepting = f.accepting], newStart)
  IN [looped EXCEPT !.accepting = Append(Append(@, newStart), newStart),
                    !.start = newStart]

\* fsm_kleene that never makes the new start state accepting
fsm_kleene_start_not_accepting(f) ==
  LET newStart == Len(f.transitions)
      added == fsm_add_state(f, FALSE)
      newTrans == fsm_trans_create_single(EPSILON, EPSILON, FSM_TRANS_POSITIVE, f.start)
      entered == fsm_add_trans(added, newStart, newTrans)
      looped == EpsilonFromAccepting(entered, newStart)
  IN [looped EXCEPT !.start = newStart]

\* fsm_kleene: f after the call
fsm_kleene(f) ==
  LET newStart == Len(f.transitions)
      added == fsm_add_state(f, FALSE)
      newTrans == fsm_trans_create_single(EPSILON, EPSILON, FSM_TRANS_POSITIVE, f.start)
      entered == fsm_add_trans(added, newStart, newTrans)
      looped == EpsilonFromAccepting(entered, newStart)
  IN [looped EXCEPT !.accepting = Append(@, newStart),
                    !.start = newStart]

\* the machine check_modifier and create_regex_fsm_recursive start from: one
\* state, start and accepting (it accepts the empty string)
EmptyStringFsm ==
  LET f == fsm_add_state(fsm_create, TRUE)
  IN [f EXCEPT !.start = 0]

\* the tail of create_char_class: two states and one transition carrying
\* the collected ranges
CharClassFsm(starts, ends, type) ==
  LET f0 == fsm_add_state(fsm_create, FALSE)
      f1 == fsm_add_state(f0, TRUE)
      f2 == [f1 EXCEPT !.start = 0]
  IN fsm_add_trans(f2, 0, fsm_trans_create(starts, ends, type, 1))

----------------------------------------------------------------------------
(* The data-model invariants of an NFA *)

ValidState(f, k) == k >= 0 /\ k < Len(f.transitions)

WellFormed(f) ==
  /\ ValidState(f, f.start)
  /\ \A i \in 1..Len(f.accepting) : ValidState(f, f.accepting[i])
  /\ \A s \in 1..Len(f.transitions) :
       \A j \in 1..Len(f.transitions[s]) : ValidState(f, f.transitions[s][j].dest)

----------------------------------------------------------------------------
(* The algebra harness: a client that creates atoms and composes them, as  *)
(* the regex parser does with the machine built so far and the new atom.   *)

\* the machines a client creates directly
BaseMachines ==
  {fsm_create_single_char(c) : c \in Alphabet}
    \cup {EmptyStringFsm,
          CharClassFsm(<<97>>, <<97>>, FSM_TRANS_NEGATIVE)}

NoOp == [op |-> "none", into |-> "first", a |-> EmptyStringFsm, b |-> EmptyStringFsm]

\* the harnesses of the edge checks and of the regex parser at rest
RestIdle ==
  /\ chk = [pc |-> "idle"]
  /\ re = [pc |-> "idle"]

Idle ==
  /\ srch = [pc |-> "idle"]
  /\ lex = <<>>
  /\ lexrun = [pc |-> "idle"]
  /\ io = [pc |-> "idle"]
  /\ RestIdle

Init ==
  /\ first \in BaseMachines
  /\ second \in BaseMachines
  /\ last = NoOp
  /\ Idle

\* a new atom replaces the right-hand operand
Create(m) ==
  /\ second' = m
  /\ last' = [op |-> "create", into |-> "second", a |-> m, b |-> m]
  /\ UNCHANGED <<first, srch, lex, lexrun, io, chk, re>>

\* fsm_concat(first, second), or with the roles of the registers exchanged
Concat(intoFirst) ==
  LET a == IF intoFirst THEN first ELSE second
      b == IF intoFirst THEN second ELSE first
  IN /\ Len(a.transitions) + 2 * Len(b.transitions) <= MaxStates
     /\ first' = (IF intoFirst THEN fsm_concat(a, b) ELSE first)
     /\ second' = (IF intoFirst THEN second ELSE fsm_concat(a, b))
     /\ last' = [op |-> "concat", into |-> IF intoFirst THEN "first" ELSE "second",
                 a |-> a, b |-> b]
     /\ UNCHANGED <<srch, lex, lexrun, io, chk, re>>

\* fsm_union(first, second), or with the roles of the registers exchanged
Union(intoFirst) ==
  LET a == IF intoFirst THEN first ELSE second
      b == IF intoFirst THEN second ELSE first
  IN /\ Len(a.transitions) + 2 * Len(b.transitions) + 1 <= MaxStates
     /\ first' = (IF intoFirst THEN fsm_union(a, b) ELSE first)
     /\ second' = (IF intoFirst THEN second ELSE fsm_union(a, b))
     /\ last' = [op |-> "union", into |-> IF intoFirst THEN "first" ELSE "second",
                 a |-> a, b |-> b]
     /\ UNCHANGED <<srch, lex, lexrun, io, chk, re>>

\* fsm_kleene(first) or fsm_kleene(second)
Kleene(onFirst) ==
  LET a == IF onFirst THEN first ELSE second
  IN /\ Len(first.transitions) + Len(second.transitions) + 1 <= MaxStates
     /\ first' = (IF onFirst THEN fsm_kleene(a) ELSE first)
     /\ second' = (IF onFirst THEN second ELSE fsm_kleene(a))
     /\ last' = [op |-> "kleene", into |-> IF onFirst THEN "first" ELSE "second",
                 a |-> a, b |-> a]
     /\ UNCHANGED <<srch, lex, lexrun, io, chk, re>>

\* the register the last operation wrote
Result == IF last.into = "first" THEN first ELSE second

Next ==
  \/ \E m \in BaseMachines : Create(m)
  \/ \E t \in BOOLEAN : Concat(t)
  \/ \E t \in BOOLEAN : Union(t)
  \/ \E t \in BOOLEAN : Kleene(t)

Spec == Init /\ [][Next]_vars

----------------------------------------------------------------------------
(* Machines for the drivers, each built the way the regex parser builds    *)
(* it: atoms concatenated onto the machine that accepts the empty string.  *)

Chr(c) == fsm_concat(EmptyStringFsm, fsm_create_single_char(c))
Then(f, c) == fsm_concat(f, fsm_create_single_char(c))

M_a == Chr(97)
M_b == Chr(98)
M_ab == Then(M_a, 98)
M_aba == Then(M_ab, 97)
\* a*
M_a_star == fsm_concat(EmptyStringFsm, fsm_kleene(fsm_create_single_char(97)))
\* a+ as check_modifier builds it: the atom, then the star of its copy
M_a_plus ==
  fsm_concat(EmptyStringFsm,
             fsm_concat(fsm_create_single_char(97),
                        fsm_kleene(fsm_create_single_char(97))))
\* a|aba: an accepted prefix, a gap, then a longer accepted prefix
M_a_or_aba == fsm_union(M_a, M_aba)
\* [^a]
M_not_a == fsm_concat(EmptyStringFsm, CharClassFsm(<<97>>, <<97>>, FSM_TRANS_NEGATIVE))
\* [ab]b
M_class_b == Then(fsm_concat(EmptyStringFsm,
                             CharClassFsm(<<97, 98>>, <<97, 98>>, FSM_TRANS_POSITIVE)), 98)

MachineCatalog ==
  {M_a, M_b, M_ab, M_aba, M_a_star, M_a_plus, M_a_or_aba, M_not_a, M_class_b}

----------------------------------------------------------------------------
(* The search driver: regex/search.c *)

\* longest text handed to fsm_search
MaxText == 3

Texts == StringsUpTo(Alphabet, MaxText)

\* the inner while of fsm_search with a bug: it gives up at the first
\* classification that is not accepting
SearchInnerLoop_StopsEarly(f, text, start) ==
  LET RECURSIVE loop(_, _, _, _)
      loop(sim, length, last_length, res) ==
        IF start + length < Len(text) /\ res # FSM_SIM_REJECTED
        THEN LET stepped == fsm_sim_nondet_step(sim)
                 r == fsm_sim_nondet_state(stepped)
                 len == length + 1
                 ll == IF r = FSM_SIM_ACCEPTING \/ r = FSM_SIM_ACCEPTED
                       THEN len ELSE last_length
             IN IF r # FSM_SIM_ACCEPTING THEN ll
                ELSE loop(stepped, len, ll, r)
        ELSE last_length
  IN loop(fsm_sim_nondet_begin(f, SubSeq(text, start + 1, Len(text))), 0, -1, -1)

\* the inner while of fsm_search: simulate from `start`, return last_length
\* (the longest length at which the simulation was accepting, or -1)
SearchInnerLoop(f, text, start) ==
  LET RECURSIVE loop(_, _, _, _)
      loop(sim, length, last_length, res) ==
        IF start + length < Len(text) /\ res # FSM_SIM_REJECTED
        THEN LET stepped == fsm_sim_nondet_step(sim)
                 r == fsm_sim_nondet_state(stepped)
                 len == length + 1
                 ll == IF r = FSM_SIM_ACCEPTING \/ r = FSM_SIM_ACCEPTED
                       THEN len ELSE last_length
             IN IF r = FSM_SIM_ACCEPTED \/ r = FSM_SIM_REJECTED THEN ll
                ELSE loop(stepped, len, ll, r)
        ELSE last_length
  IN loop(fsm_sim_nondet_begin(f, SubSeq(text, start + 1, Len(text))), 0, -1, -1)

\* regex_hit_create
regex_hit_create(start, length) == [start |-> start, length |-> length]

AlgebraIdle ==
  /\ first = EmptyStringFsm
  /\ second = EmptyStringFsm
  /\ last = NoOp

\* entry of fsm_search(regex_fsm, srchText, greedy, overlap)
InitSearch ==
  /\ \E f \in MachineCatalog, text \in Texts, greedy \in BOOLEAN, overlap \in BOOLEAN :
       srch = [pc |-> "loop", f |-> f, text |-> text, greedy |-> greedy,
               overlap |-> overlap, start |-> 0, results |-> <<>>,
               iter_start |-> -1, iter_length |-> -1]
  /\ AlgebraIdle
  /\ lex = <<>>
  /\ lexrun = [pc |-> "idle"]
  /\ io = [pc |-> "idle"]
  /\ RestIdle

\* the greedy return after a hit, with a bug: the search goes on
search_returns_never(last_length, greedy) == FALSE

\* the greedy return after a hit (search.c:114-117)
search_returns(last_length, greedy) == last_length # -1 /\ greedy

\* where the next simulation starts, with a bug: without a hit the start
\* index stays
search_next_start_stays_without_hit(start, last_length, overlap) ==
  IF last_length # -1
  THEN (IF overlap THEN start + 1 ELSE start + last_length)
  ELSE start

\* where the next simulation starts, with a bug: one character further
\* also when hits must not overlap
search_next_start_always_one(start, last_length, overlap) == start + 1

\* where the next simulation starts (search.c:119-130)
search_next_start(start, last_length, overlap) ==
  IF last_length # -1
  THEN (IF overlap THEN start + 1 ELSE start + last_length)
  ELSE start + 1

\* one iteration of the outer while of fsm_search
SearchIteration ==
  /\ srch.pc = "loop"
  /\ srch.start < Len(srch.text)
  /\ LET last_length == SearchInnerLoop(srch.f, srch.text, srch.start)
         hit == last_length # -1
         returns == search_returns(last_length, srch.greedy)
     IN srch' = [srch EXCEPT
                   !.results = IF hit
                               THEN Append(@, regex_hit_create(srch.start, last_length))
                               ELSE @,
                   !.pc = IF returns THEN "returned" ELSE "loop",
                   !.start = IF returns THEN @
                             ELSE search_next_start(@, last_length, srch.overlap),
                   !.iter_start = srch.start,
                   !.iter_length = last_length]
  /\ UNCHANGED <<first, second, last, lex, lexrun, io, chk, re>>

\* the outer while ends at the terminator of the text
SearchReturn ==
  /\ srch.pc = "loop"
  /\ srch.start >= Len(srch.text)
  /\ srch' = [srch EXCEPT !.pc = "returned"]
  /\ UNCHANGED <<first, second, last, lex, lexrun, io, chk, re>>

NextSearch == SearchIteration \/ SearchReturn

SpecSearch == InitSearch /\ [][NextSearch]_vars

\* fsm_search as one call: the list of hits it returns
fsm_search(f, text, greedy, overlap) ==
  LET RECURSIVE outer(_, _)
      outer(start, results) ==
        IF start >= Len(text) THEN results
        ELSE LET last_length == SearchInnerLoop(f, text, start)
                 found == IF last_length # -1
                          THEN Append(results, regex_hit_create(start, last_length))
                          ELSE results
             IN IF search_returns(last_length, greedy) THEN found
                ELSE outer(search_next_start(start, last_length, overlap), found)
  IN outer(0, <<>>)

----------------------------------------------------------------------------
(* The lexer: lex.c.  Two drivers are in the tree: the buffered lex_yylex  *)
(* that walks the input itself, and the stepwise one (lex_start, lex_step, *)
(* lex_get_token, lex_get_length) that is fed one character at a time.     *)

\* most patterns a lexer is loaded with
MaxPatterns == 2
\* most characters the stepwise driver reads beyond the terminator
MaxOverrun == 1

Tokens == {"T1", "T2"}
\* what the caller's token variable holds before the call
CallerToken == "unset"
\* (DATA){.data_ptr=NULL}
NullToken == "NULL"

\* [^a]*
M_not_a_star ==
  fsm_concat(EmptyStringFsm,
             fsm_kleene(CharClassFsm(<<97>>, <<97>>, FSM_TRANS_NEGATIVE)))

LexCatalog == {M_a, M_ab, M_a_or_aba, M_not_a, M_not_a_star}

\* lex_add_pattern, given the machine regex_parse built
lex_add_pattern(obj, f, token) == Append(obj, [pattern |-> f, token |-> token])

\* the buffered lex_yylex; the result is what it stores in *token, *length
lex_yylex(obj, input, token) ==
  LET simulations == [i \in 1..Len(obj) |-> fsm_sim_nondet_begin(obj[i].pattern, input)]
      result(last_pattern, last_index) ==
        IF last_pattern >= 0
        THEN [token |-> obj[last_pattern + 1].token, length |-> last_index + 1]
        ELSE [token |-> token, length |-> -1]
      RECURSIVE chars(_, _, _, _)
      chars(j, sims, last_pattern, last_index) ==
        IF j < Len(input)
        THEN LET stepped == [i \in 1..Len(obj) |-> fsm_sim_nondet_step(sims[i])]
                 RECURSIVE each(_, _)
                 each(i, rec) ==
                   IF i >= Len(obj) THEN rec
                   ELSE LET state == fsm_sim_nondet_state(stepped[i + 1])
                        IN IF (state = FSM_SIM_ACCEPTING \/ state = FSM_SIM_ACCEPTED)
                              /\ rec.last_index < j
                           THEN each(i + 1, [last_pattern |-> i, last_index |-> j])
                           ELSE each(i + 1, rec)
                 rec == each(0, [last_pattern |-> last_pattern, last_index |-> last_index])
             IN IF rec.last_index < j
                THEN result(rec.last_pattern, rec.last_index)
                ELSE chars(j + 1, stepped, rec.last_pattern, rec.last_index)
        ELSE result(last_pattern, last_index)
  IN chars(0, simulations, -1, -1)

\* The simulator interface the stepwise driver calls: begin without an
\* input, step over a character handed in, classify against the next
\* character handed in.  A simulation is the list of current states.
fsm_sim_nondet_begin_stepwise(f) == fsm_sim_nondet_epsilon_closure(f, f.start)

fsm_sim_nondet_step_stepwise(f, curr, input) ==
  StepClosures(f, StepDestinations(f, curr, input))

fsm_sim_nondet_state_stepwise(f, curr, next) ==
  IF Len(curr) = 0 THEN FSM_SIM_REJECTED
  ELSE IF fsm_sim_nondet_non_empty_intersection(f.accepting, curr)
       THEN (IF next = 0 THEN FSM_SIM_ACCEPTED ELSE FSM_SIM_ACCEPTING)
       ELSE (IF next = 0 THEN FSM_SIM_REJECTED ELSE FSM_SIM_NOT_ACCEPTING)

\* lex_start with a bug: a pattern that is accepting before any character
\* is read is recorded as the match so far
lex_start_records_empty_match(obj) ==
  LET sims == [i \in 1..Len(obj) |-> fsm_sim_nondet_begin_stepwise(obj[i].pattern)]
      empty == {i \in 1..Len(obj) :
                  fsm_sim_nondet_non_empty_intersection(obj[i].pattern.accepting, sims[i])}
  IN [simulations |-> sims,
      last_pattern |-> IF empty = {} THEN -1
                       ELSE (CHOOSE i \in empty : \A k \in empty : i <= k) - 1,
      last_index |-> -1, finished |-> FALSE]

\* lex_start
lex_start(obj) ==
  [simulations |-> [i \in 1..Len(obj) |-> fsm_sim_nondet_begin_stepwise(obj[i].pattern)],
   last_pattern |-> -1, last_index |-> -1, finished |-> FALSE]

\* lex_step with a bug: a later pattern accepting at the same index
\* replaces the earlier one
lex_step_later_pattern_wins(obj, sim, input) ==
  LET curr_idx == sim.last_index + 1
      stepped == [i \in 1..Len(obj) |->
                    fsm_sim_nondet_step_stepwise(obj[i].pattern, sim.simulations[i], input)]
      RECURSIVE each(_, _)
      each(i, rec) ==
        IF i >= Len(obj) THEN rec
        ELSE LET state == fsm_sim_nondet_state_stepwise(obj[i + 1].pattern, stepped[i + 1], 0)
             IN IF (state = FSM_SIM_ACCEPTING \/ state = FSM_SIM_ACCEPTED)
                   /\ rec.last_index <= curr_idx
                THEN each(i + 1, [last_pattern |-> i, last_index |-> curr_idx])
                ELSE each(i + 1, rec)
      rec == each(0, [last_pattern |-> sim.last_pattern, last_index |-> sim.last_index])
  IN [simulations |-> stepped, last_pattern |-> rec.last_pattern,
      last_index |-> rec.last_index, finished |-> rec.last_index < curr_idx]

\* lex_step
lex_step(obj, sim, input) ==
  LET curr_idx == sim.last_index + 1
      stepped == [i \in 1..Len(obj) |->
                    fsm_sim_nondet_step_stepwise(obj[i].pattern, sim.simulations[i], input)]
      RECURSIVE each(_, _)
      each(i, rec) ==
        IF i >= Len(obj) THEN rec
        ELSE LET state == fsm_sim_nondet_state_stepwise(obj[i + 1].pattern, stepped[i + 1], 0)
             IN IF (state = FSM_SIM_ACCEPTING \/ state = FSM_SIM_ACCEPTED)
                   /\ rec.last_index < curr_idx
                THEN each(i + 1, [last_pattern |-> i, last_index |-> curr_idx])
                ELSE each(i + 1, rec)
      rec == each(0, [last_pattern |-> sim.last_pattern, last_index |-> sim.last_index])
  IN [simulations |-> stepped, last_pattern |-> rec.last_pattern,
      last_index |-> rec.last_index, finished |-> rec.last_index < curr_idx]

\* lex_get_token
lex_get_token(obj, sim) ==
  IF ~sim.finished \/ sim.last_pattern < 0 THEN NullToken
  ELSE obj[sim.last_pattern + 1].token

\* lex_get_length
lex_get_length(obj, sim) ==
  IF ~sim.finished THEN -1 ELSE sim.last_index + 1

InitLex ==
  /\ lex = <<>>
  /\ lexrun = [pc |-> "idle"]
  /\ AlgebraIdle
  /\ srch = [pc |-> "idle"]
  /\ io = [pc |-> "idle"]
  /\ RestIdle

\* lex_add_pattern(obj, regex, token)
LexAddPattern(f, token) ==
  /\ lexrun.pc = "idle"
  /\ Len(lex) < MaxPatterns
  /\ lex' = lex_add_pattern(lex, f, token)
  /\ UNCHANGED <<first, second, last, srch, lexrun, io, chk, re>>

\* a call of the buffered lex_yylex(obj, input, &token, &length, &status)
LexYylex(input) ==
  /\ lexrun.pc = "idle"
  /\ LET r == lex_yylex(lex, input, CallerToken)
     IN lexrun' = [pc |-> "returned", driver |-> "buffered", input |-> input,
                   token |-> r.token, length |-> r.length]
  /\ UNCHANGED <<first, second, last, srch, lex, io, chk, re>>

\* the stepwise lex_yylex: sim = lex_start(obj)
LexStart(input) ==
  /\ lexrun.pc = "idle"
  /\ lexrun' = [pc |-> "stepping", driver |-> "stepwise", input |-> input,
                read |-> 0, sim |-> lex_start(lex)]
  /\ UNCHANGED <<first, second, last, srch, lex, io, chk, re>>

\* the characters *input can be after `read` characters were read: the
\* input, then its terminator, then whatever the memory behind it holds
CharAt(input, read) ==
  IF read < Len(input) THEN {input[read + 1]}
  ELSE IF read = Len(input) THEN {0}
  ELSE Alphabet \cup {0}

\* the stepwise lex_yylex: while (!sim->finished) lex_step(obj, sim, *input++)
LexStep ==
  /\ lexrun.pc = "stepping"
  /\ ~lexrun.sim.finished
  /\ lexrun.read <= Len(lexrun.input) + MaxOverrun
  /\ \E c \in CharAt(lexrun.input, lexrun.read) :
       lexrun' = [lexrun EXCEPT !.sim = lex_step(lex, lexrun.sim, c),
                                !.read = @ + 1]
  /\ UNCHANGED <<first, second, last, srch, lex, io, chk, re>>

\* the stepwise lex_yylex: *token = lex_get_token, *length = lex_get_length
LexReturn ==
  /\ lexrun.pc = "stepping"
  /\ lexrun.sim.finished
  /\ lexrun' = [pc |-> "returned", driver |-> "stepwise", input |-> lexrun.input,
                token |-> lex_get_token(lex, lexrun.sim),
                length |-> lex_get_length(lex, lexrun.sim)]
  /\ UNCHANGED <<first, second, last, srch, lex, io, chk, re>>

NextLex ==
  \/ \E f \in LexCatalog, token \in Tokens : LexAddPattern(f, token)
  \/ \E input \in Texts : LexYylex(input)
  \/ \E input \in Texts : LexStart(input)
  \/ LexStep
  \/ LexReturn

SpecLex == InitLex /\ [][NextLex]_vars

----------------------------------------------------------------------------
(* Persistence: fsm/io.c.  Text is a sequence of character codes.          *)

\* "start:"
StartLabel == <<115, 116, 97, 114, 116, 58>>
\* "accept:"
AcceptLabel == <<97, 99, 99, 101, 112, 116, 58>>
\* '\n', ' ', '+', '-', ':', '\\', 'e'
NewlineChar == <<10>>
SpaceChar == <<32>>
PlusChar == <<43>>
MinusChar == <<45>>
ColonChar == <<58>>
EscapedEpsilon == <<92, 101>>

\* the digits of printf's %d
RECURSIVE PrintNat(_)
PrintNat(n) ==
  IF n < 10 THEN <<48 + n>> ELSE PrintNat(n \div 10) \o <<48 + (n % 10)>>

PrintInt(n) == IF n < 0 THEN MinusChar \o PrintNat(-n) ELSE PrintNat(n)

\* fsm_print_char: EPSILON as \e, anything else verbatim
fsm_print_char(input) ==
  IF input = EPSILON THEN EscapedEpsilon ELSE <<input>>

\* the ranges of one transition as fsm_print writes them to dest; the space
\* between two ranges goes to stdout, so dest holds it only if it is stdout
PrintRanges(ft, destIsStdout) ==
  LET n == RangeCount(ft.start)
      RECURSIVE loop(_)
      loop(k) ==
        IF k > n THEN <<>>
        ELSE fsm_print_char(ft.start[k]) \o MinusChar \o fsm_print_char(ft.end[k])
             \o (IF k < n /\ destIsStdout THEN SpaceChar ELSE <<>>)
             \o loop(k + 1)
  IN loop(1)

\* fsm_print: the text that reaches dest
fsm_print(f, destIsStdout) ==
  LET RECURSIVE accepts(_)
      accepts(i) ==
        IF i > Len(f.accepting) THEN <<>>
        ELSE AcceptLabel \o PrintInt(f.accepting[i]) \o NewlineChar \o accepts(i + 1)
      RECURSIVE edges(_, _)
      edges(i, j) ==
        IF i > Len(f.transitions) THEN <<>>
        ELSE IF j > Len(f.transitions[i]) THEN edges(i + 1, 1)
        ELSE LET ft == f.transitions[i][j]
             IN PrintInt(i - 1) \o MinusChar \o PrintInt(ft.dest) \o ColonChar
                \o (IF ft.type = FSM_TRANS_POSITIVE THEN PlusChar ELSE MinusChar)
                \o PrintRanges(ft, destIsStdout) \o NewlineChar
                \o edges(i, j + 1)
  IN StartLabel \o PrintInt(f.start) \o NewlineChar \o accepts(1) \o edges(1, 1)

\* split_lines: cut at every newline; a last piece without one is a line
\* only if it is not empty
split_lines(source) ==
  LET Newline(start) ==
        IF \E p \in start..Len(source) : source[p] = 10
        THEN CHOOSE p \in start..Len(source) :
               source[p] = 10 /\ \A q \in start..(p - 1) : source[q] # 10
        ELSE 0
      RECURSIVE loop(_, _)
      loop(start, list) ==
        IF start > Len(source) THEN list
        ELSE LET nl == Newline(start)
             IN IF nl = 0 THEN Append(list, SubSeq(source, start, Len(source)))
                ELSE loop(nl + 1, Append(list, SubSeq(source, start, nl - 1)))
  IN loop(1, <<>>)

IsSpace(c) == c \in {32, 9, 10, 11, 12, 13}
IsDigit(c) == c \in 48..57

\* swscanf: a literal of the format, matched at pos (1-based); the position
\* behind it, or 0 on a mismatch
ScanLiteral(s, pos, lit) ==
  IF pos >= 1 /\ pos + Len(lit) - 1 <= Len(s) /\ SubSeq(s, pos, pos + Len(lit) - 1) = lit
  THEN pos + Len(lit) ELSE 0

\* swscanf %d at pos: white space skipped, an optional sign, digits
ScanInt(s, pos) ==
  LET RECURSIVE skip(_)
      skip(p) == IF p <= Len(s) /\ IsSpace(s[p]) THEN skip(p + 1) ELSE p
      p1 == skip(pos)
      signed == p1 <= Len(s) /\ (s[p1] = 43 \/ s[p1] = 45)
      p2 == IF signed THEN p1 + 1 ELSE p1
      RECURSIVE digits(_, _)
      digits(p, v) ==
        IF p <= Len(s) /\ IsDigit(s[p]) THEN digits(p + 1, 10 * v + (s[p] - 48))
        ELSE [pos |-> p, value |-> v]
      d == digits(p2, 0)
  IN IF pos < 1 \/ d.pos = p2 THEN [ok |-> FALSE, value |-> 0, pos |-> 0]
     ELSE [ok |-> TRUE,
           value |-> IF signed /\ s[p1] = 45 THEN -d.value ELSE d.value,
           pos |-> d.pos]

\* swscanf %lc at pos: the next character, white space included
ScanChar(s, pos) ==
  IF pos >= 1 /\ pos <= Len(s) THEN [ok |-> TRUE, value |-> s[pos], pos |-> pos + 1]
  ELSE [ok |-> FALSE, value |-> 0, pos |-> 0]

\* swscanf(line, L"start:%d", &state) and swscanf(line, L"accept:%d", &state)
ScanLabelInt(line, label) == ScanInt(line, ScanLiteral(line, 1, label))

\* fsm_extend_states with a bug: only the source state is provided for
fsm_extend_states_source_only(f, src, dst) ==
  LET RECURSIVE loop(_)
      loop(g) == IF Len(g.transitions) < src + 1 THEN loop(fsm_add_state(g, FALSE)) ELSE g
  IN loop(f)

\* fsm_extend_states
fsm_extend_states(f, src, dst) ==
  LET max == IF src > dst THEN src ELSE dst
      RECURSIVE loop(_)
      loop(g) == IF Len(g.transitions) < max + 1 THEN loop(fsm_add_state(g, FALSE)) ELSE g
  IN loop(f)

\* the while loop of fsm_parsetrans: swscanf(subline, L"%lc-%lc%n") until
\* it no longer converts two characters
ScanRanges(line, pos) ==
  LET RECURSIVE loop(_, _, _)
      loop(p, sources, destinations) ==
        LET src_char == ScanChar(line, p)
            dst_char == ScanChar(line, ScanLiteral(line, src_char.pos, MinusChar))
        IN IF src_char.ok /\ dst_char.ok
           THEN loop(dst_char.pos, Append(sources, src_char.value),
                     Append(destinations, dst_char.value))
           ELSE [sources |-> sources, destinations |-> destinations]
  IN loop(pos, <<>>, <<>>)

\* fsm_parsetrans: a malformed line leaves the machine as it is
fsm_parsetrans(line, f) ==
  LET src_state == ScanInt(line, 1)
      dst_state == ScanInt(line, ScanLiteral(line, src_state.pos, MinusChar))
      type_char == ScanChar(line, ScanLiteral(line, dst_state.pos, ColonChar))
  IN IF ~(src_state.ok /\ dst_state.ok /\ type_char.ok) THEN f
     ELSE LET type == IF type_char.value = 43 THEN FSM_TRANS_POSITIVE
                      ELSE FSM_TRANS_NEGATIVE
              ranges == ScanRanges(line, type_char.pos)
              t == fsm_trans_create(ranges.sources, ranges.destinations, type,
                                    dst_state.value)
          IN fsm_add_trans(fsm_extend_states(f, src_state.value, dst_state.value),
                           src_state.value, t)

\* fsm_parseacceptlines: [f, lines] after the leading accept lines
fsm_parseacceptlines(lines, f) ==
  LET RECURSIVE loop(_, _)
      loop(ls, g) ==
        IF ls = <<>> THEN [f |-> g, lines |-> ls]
        ELSE LET state == ScanLabelInt(Head(ls), AcceptLabel)
             IN IF state.ok
                THEN loop(Tail(ls), [g EXCEPT !.accepting = Append(@, state.value)])
                ELSE [f |-> g, lines |-> ls]
  IN loop(lines, f)

\* fsm_parsetranslines
fsm_parsetranslines(lines, f) ==
  LET RECURSIVE loop(_, _)
      loop(ls, g) ==
        IF ls = <<>> THEN g ELSE loop(Tail(ls), fsm_parsetrans(Head(ls), g))
  IN loop(lines, f)

\* fsm_parselines with a bug: the first line is consumed also when it is
\* not a start line
fsm_parselines_first_line_consumed(lines) ==
  IF Len(lines) < 1 THEN [ok |-> FALSE, f |-> fsm_create]
  ELSE LET state == ScanLabelInt(Head(lines), StartLabel)
           f0 == [fsm_create EXCEPT !.start = IF state.ok THEN state.value ELSE 0]
           rest == Tail(lines)
           acc == fsm_parseacceptlines(rest, f0)
       IN [ok |-> TRUE, f |-> fsm_parsetranslines(acc.lines, acc.f)]

\* fsm_parselines: ok is FALSE for the NULL result
fsm_parselines(lines) ==
  IF Len(lines) < 1 THEN [ok |-> FALSE, f |-> fsm_create]
  ELSE LET state == ScanLabelInt(Head(lines), StartLabel)
           f0 == [fsm_create EXCEPT !.start = IF state.ok THEN state.value ELSE 0]
           rest == IF state.ok THEN Tail(lines) ELSE lines
           acc == fsm_parseacceptlines(rest, f0)
       IN [ok |-> TRUE, f |-> fsm_parsetranslines(acc.lines, acc.f)]

\* fsm_read
fsm_read(source) == fsm_parselines(split_lines(source))

\* [ab]
M_class == CharClassFsm(<<97, 98>>, <<97, 98>>, FSM_TRANS_POSITIVE)

IOMachines == BaseMachines \cup MachineCatalog \cup {M_class}

\* most lines of a hand-written machine description
MaxLines == 3

\* start:0  start:1  accept:0  accept:1  0-1:+a-a  1-0:-b-b  0-1:+\e-\e
\* 1-1:+a-a b-b  3-1:+b-b  0-1:+a
SourceLines ==
  { StartLabel \o <<48>>, StartLabel \o <<49>>,
    AcceptLabel \o <<48>>, AcceptLabel \o <<49>>,
    <<48, 45, 49, 58, 43, 97, 45, 97>>,
    <<49, 45, 48, 58, 45, 98, 45, 98>>,
    <<48, 45, 49, 58, 43, 92, 101, 45, 92, 101>>,
    <<49, 45, 49, 58, 43, 97, 45, 97, 32, 98, 45, 98>>,
    <<51, 45, 49, 58, 43, 98, 45, 98>>,
    <<48, 45, 49, 58, 43, 97>> }

RECURSIVE SourcesUpTo(_)
SourcesUpTo(n) ==
  IF n = 0 THEN {<<>>}
  ELSE LET shorter == SourcesUpTo(n - 1)
       IN shorter \cup {src \o line \o NewlineChar : src \in shorter, line \in SourceLines}

Sources == SourcesUpTo(MaxLines)

InitIO ==
  /\ io = [pc |-> "idle"]
  /\ AlgebraIdle
  /\ srch = [pc |-> "idle"]
  /\ lex = <<>>
  /\ lexrun = [pc |-> "idle"]
  /\ RestIdle

\* fsm_print(f, dest)
IOPrint(f, destIsStdout) ==
  /\ io.pc = "idle"
  /\ io' = [pc |-> "printed", f |-> f, text |-> fsm_print(f, destIsStdout)]
  /\ UNCHANGED <<first, second, last, srch, lex, lexrun, chk, re>>

\* fsm_read of the text fsm_print wrote
IORead ==
  /\ io.pc = "printed"
  /\ LET r == fsm_read(io.text)
     IN io' = [pc |-> "read", f |-> io.f, text |-> io.text, ok |-> r.ok, g |-> r.f]
  /\ UNCHANGED <<first, second, last, srch, lex, lexrun, chk, re>>

\* fsm_read of a hand-written description
IOReadSource(source) ==
  /\ io.pc = "idle"
  /\ LET r == fsm_read(source)
     IN io' = [pc |-> "parsed", text |-> source, ok |-> r.ok, g |-> r.f]
  /\ UNCHANGED <<first, second, last, srch, lex, lexrun, chk, re>>

NextIO ==
  \/ \E f \in IOMachines, destIsStdout \in BOOLEAN : IOPrint(f, destIsStdout)
  \/ IORead
  \/ \E source \in Sources : IOReadSource(source)

SpecIO == InitIO /\ [][NextIO]_vars

----------------------------------------------------------------------------
(* Reference semantics: the runs of an NFA in which only the dedicated     *)
(* (EPSILON, EPSILON) transitions are taken without consuming input.       *)

IsEpsilonEdge(ft) ==
  /\ ft.type = FSM_TRANS_POSITIVE
  /\ ft.start = <<EPSILON>>
  /\ ft.end = <<EPSILON>>

\* the states reachable from the set S by zero or more epsilon edges
RECURSIVE EpsilonReach(_, _)
EpsilonReach(f, S) ==
  LET more == {f.transitions[k + 1][j].dest :
                 <<k, j>> \in {<<k, j>> \in S \X (1..MaxStates) :
                                 /\ j <= Len(f.transitions[k + 1])
                                 /\ IsEpsilonEdge(f.transitions[k + 1][j])}}
  IN IF more \subseteq S THEN S ELSE EpsilonReach(f, S \cup more)

\* the states entered from S by a range edge that consumes character c
Consume(f, S, c) ==
  {f.transitions[k + 1][j].dest :
     <<k, j>> \in {<<k, j>> \in S \X (1..MaxStates) :
                     /\ j <= Len(f.transitions[k + 1])
                     /\ ~IsEpsilonEdge(f.transitions[k + 1][j])
                     /\ fsm_trans_check(f.transitions[k + 1][j], c)}}

RECURSIVE RunStates(_, _, _)
RunStates(f, S, w) ==
  IF w = <<>> THEN S
  ELSE RunStates(f, EpsilonReach(f, Consume(f, S, Head(w))), Tail(w))

\* f has a run from its start state to an accepting state that consumes w
HasAcceptingRun(f, w) ==
  \E i \in 1..Len(f.accepting) :
    f.accepting[i] \in RunStates(f, EpsilonReach(f, {f.start}), w)

Prefix(w, k) == SubSeq(w, 1, k)
Suffix(w, k) == SubSeq(w, k + 1, Len(w))

----------------------------------------------------------------------------
(* Claims about the simulator and the composition algebra (Spec) *)

\* C1: for every well-formed NFA and every input w, fsm_sim_nondet returns
\* true iff the NFA has a run from its start state to an accepting state
\* that consumes exactly w, only (EPSILON, EPSILON) edges being free.
C1_SimAcceptsIffRun ==
  \A w \in Inputs : fsm_sim_nondet(first, w) <=> HasAcceptingRun(first, w)

\* the strings of Inputs that fsm_sim_nondet accepts on f
Lang(f) == {w \in Inputs : fsm_sim_nondet(f, w)}

\* C6: concat(A, B) accepts w iff w splits as x.y with A accepting x and B
\* accepting y.
C6_ConcatLanguage ==
  last.op = "concat" =>
    LET LA == Lang(last.a)
        LB == Lang(last.b)
        LR == Lang(Result)
    IN \A w \in Inputs :
         w \in LR <=> \E k \in 0..Len(w) : Prefix(w, k) \in LA /\ Suffix(w, k) \in LB

\* a concatenation whose result accepts a string that needs both operands
C6_Witness ==
  /\ last.op = "concat"
  /\ \E w \in Inputs : \E k \in 1..(Len(w) - 1) :
       /\ fsm_sim_nondet(Result, w)
       /\ fsm_sim_nondet(last.a, Prefix(w, k))
       /\ fsm_sim_nondet(last.b, Suffix(w, k))
       /\ ~fsm_sim_nondet(last.a, w)

\* C7: union(A, B) accepts s iff A accepts s or B accepts s.
C7_UnionLanguage ==
  last.op = "union" =>
    \A w \in Inputs :
      fsm_sim_nondet(Result, w) <=>
        (fsm_sim_nondet(last.a, w) \/ fsm_sim_nondet(last.b, w))

\* a union that accepts one string through each operand only
C7_Witness ==
  /\ last.op = "union"
  /\ \E w \in Inputs :
       fsm_sim_nondet(Result, w) /\ fsm_sim_nondet(last.a, w) /\ ~fsm_sim_nondet(last.b, w)
  /\ \E w \in Inputs :
       fsm_sim_nondet(Result, w) /\ fsm_sim_nondet(last.b, w) /\ ~fsm_sim_nondet(last.a, w)

\* w is s1 s2 ... sn, n >= 1, every si in the set L
RECURSIVE InPlus(_, _)
InPlus(L, w) ==
  \/ w \in L
  \/ \E k \in 1..(Len(w) - 1) : Prefix(w, k) \in L /\ InPlus(L, Suffix(w, k))

\* C8: star(A) accepts the empty string, and a non-empty s iff s is a
\* concatenation of n >= 1 strings each accepted by A.
C8_StarLanguage ==
  last.op = "kleene" =>
    LET LA == Lang(last.a)
    IN /\ fsm_sim_nondet(Result, <<>>)
       /\ \A w \in Inputs \ {<<>>} : fsm_sim_nondet(Result, w) <=> InPlus(LA, w)

\* a star that accepts a repetition its operand does not accept
C8_Witness ==
  /\ last.op = "kleene"
  /\ ~fsm_sim_nondet(last.a, <<>>)
  /\ \E w \in Inputs : Len(w) >= 2 /\ fsm_sim_nondet(Result, w) /\ ~fsm_sim_nondet(last.a, w)
  /\ \E w \in Inputs : Len(w) >= 1 /\ ~fsm_sim_nondet(Result, w)

\* C9: after any sequence of concat, union and star on well-formed NFAs the
\* result is well-formed: start, accepting indices and every dest are valid.
C9_CompositionWellFormed ==
  WellFormed(first) /\ WellFormed(second)

\* a star over a concatenation: a machine built by two operations, holding
\* edges that were copied with an offset
C9_Witness ==
  /\ last.op = "kleene"
  /\ Len(last.a.transitions) = 4
  /\ Len(Result.transitions) = 5
  /\ Result.start = 4
  /\ \E s \in 3..4 : \E j \in 1..Len(Result.transitions[s]) :
       Result.transitions[s][j].dest >= 2

----------------------------------------------------------------------------
(* Claims about the search driver (SpecSearch) *)

\* the lengths l >= 1 of the prefixes of text[i..] that the NFA accepts
AcceptedLengths(f, text, i) ==
  {l \in 1..(Len(text) - i) : fsm_sim_nondet(f, SubSeq(text, i + 1, i + l))}

Max(S) == CHOOSE x \in S : \A y \in S : y <= x

\* C5: with greedy = false and overlap = false, when start index i is
\* reached a hit {i, l} is emitted iff some non-empty prefix of text[i..] is
\* accepted, and l is the length of the longest accepted prefix.
C5_SearchLongestPrefix ==
  (srch.pc # "idle" /\ ~srch.greedy /\ ~srch.overlap /\ srch.iter_start >= 0) =>
    LET i == srch.iter_start
        lens == AcceptedLengths(srch.f, srch.text, i)
        emitted == /\ Len(srch.results) > 0
                   /\ srch.results[Len(srch.results)].start = i
    IN /\ emitted <=> lens # {}
       /\ emitted => srch.results[Len(srch.results)].length = Max(lens)

\* a hit whose length lies beyond a shorter accepted prefix and a prefix
\* that is not accepted: the simulation stepped through NotAccepting
C5_Witness ==
  /\ srch.pc # "idle" /\ ~srch.greedy /\ ~srch.overlap
  /\ Len(srch.results) > 0
  /\ LET h == srch.results[Len(srch.results)]
         lens == AcceptedLengths(srch.f, srch.text, h.start)
     IN /\ h.start = srch.iter_start
        /\ h.length = 3
        /\ 1 \in lens
        /\ 2 \notin lens

----------------------------------------------------------------------------
(* Claims about the lexer (SpecLex) *)

\* the patterns, by position in load order, whose NFA accepts input[0..l)
Accepters(obj, input, l) ==
  {i \in 1..Len(obj) : fsm_sim_nondet(obj[i].pattern, Prefix(input, l))}

\* the lengths l >= 1 such that some pattern accepts input[0..l)
MatchLengths(obj, input) ==
  {l \in 1..Len(input) : Accepters(obj, input, l) # {}}

Min(S) == CHOOSE x \in S : \A y \in S : x <= y

\* C2: for every pattern list and input, the length yylex returns is the
\* greatest l >= 1 such that some pattern accepts input[0..l), also when no
\* pattern is accepting at some shorter length in between.
C2_LexLongestMatch ==
  lexrun.pc = "returned" =>
    LET lens == MatchLengths(lex, lexrun.input)
    IN lens # {} => lexrun.length = Max(lens)

\* C3: when patterns accept the prefix of the returned length, yylex returns
\* the token of the one earliest in load order.
C3_LexEarliestPattern ==
  (lexrun.pc = "returned" /\ lexrun.length >= 1 /\ lexrun.length <= Len(lexrun.input)) =>
    LET acc == Accepters(lex, lexrun.input, lexrun.length)
    IN acc # {} /\ lexrun.token = lex[Min(acc)].token

\* the stepwise driver returned the first pattern's token although the
\* second pattern, with another token, accepts the same prefix
C3_Witness ==
  /\ lexrun.pc = "returned"
  /\ lexrun.driver = "stepwise"
  /\ Len(lex) = 2
  /\ lex[1].token # lex[2].token
  /\ lexrun.length >= 1 /\ lexrun.length <= Len(lexrun.input)
  /\ Accepters(lex, lexrun.input, lexrun.length) = {1, 2}
  /\ lexrun.token = lex[1].token

\* C4: when no pattern accepts any non-empty prefix of the input, yylex
\* returns length -1 and no token.
C4_LexNoMatch ==
  (lexrun.pc = "returned" /\ MatchLengths(lex, lexrun.input) = {}) =>
    lexrun.length = -1 /\ lexrun.token \notin Tokens

----------------------------------------------------------------------------
(* Claims about persistence (SpecIO) *)

\* C10: for every well-formed NFA N, with multi-range edges, epsilon edges
\* or states without edges, read(write(N)) succeeds and accepts and rejects
\* exactly the strings N does.
C10_PersistenceRoundTrip ==
  io.pc = "read" =>
    /\ io.ok
    /\ WellFormed(io.g)
    /\ \A w \in Inputs : fsm_sim_nondet(io.g, w) <=> fsm_sim_nondet(io.f, w)


----------------------------------------------------------------------------
(* Escapes: str.c.  A string is the sequence of its character codes; a    *)
(* pointer into it is an index from 1, and the index Len + 1 is the        *)
(* terminating NUL.                                                        *)

\* *regex for the pointer at index i
RegexAt(regex, i) == IF i >= 1 /\ i <= Len(regex) THEN regex[i] ELSE 0

\* hexit_val
hexit_val(digit) ==
  IF digit >= 48 /\ digit <= 57 THEN digit - 48
  ELSE IF digit >= 97 /\ digit <= 102 THEN 10 + (digit - 32) - 65
  ELSE IF digit >= 65 /\ digit <= 70 THEN 10 + digit - 65
  ELSE -1

\* get_escape(source, epsilon) with *source at index i, the specifier:
\* the character escaped and the pointer behind the escape
get_escape(regex, i, epsilon) ==
  LET specifier == RegexAt(regex, i)
      h(k) == hexit_val(RegexAt(regex, i + k))
  IN CASE specifier = 97 -> [value |-> 7, pos |-> i + 1]          \* a
       [] specifier = 98 -> [value |-> 8, pos |-> i + 1]          \* b
       [] specifier = 101 -> [value |-> epsilon, pos |-> i + 1]   \* e
       [] specifier = 102 -> [value |-> 12, pos |-> i + 1]        \* f
       [] specifier = 110 -> [value |-> 10, pos |-> i + 1]        \* n
       [] specifier = 114 -> [value |-> 13, pos |-> i + 1]        \* r
       [] specifier = 116 -> [value |-> 9, pos |-> i + 1]         \* t
       [] specifier = 118 -> [value |-> 11, pos |-> i + 1]        \* v
       [] specifier = 92 -> [value |-> 92, pos |-> i + 1]         \* backslash
       [] specifier = 120 ->                                      \* x
            [value |-> 16 * h(1) + h(2), pos |-> i + 3]
       [] specifier = 117 ->                                      \* u
            [value |-> 4096 * h(1) + 256 * h(2) + 16 * h(3) + h(4), pos |-> i + 5]
       [] OTHER -> [value |-> specifier, pos |-> i + 1]

----------------------------------------------------------------------------
(* fsm_trans_check and fsm_sim_nondet_state on their own: the arguments are *)
(* drawn at the start, one action applies the function                      *)

\* most ranges of an edge handed to fsm_trans_check
MaxRanges == 2
\* longest current / accepting list handed to fsm_sim_nondet_state
MaxList == 2

\* range endpoints: NUL, 'a', 'b'
RangeEnds == {0, 97, 98}
\* characters checked: the EPSILON sentinel, NUL, 'a', 'b', 'c'
CheckChars == {EPSILON, 0, 97, 98, 99}
\* state numbers in the lists of a simulation
CheckStates == {0, 1, 2}

RangeLists == StringsUpTo(RangeEnds, MaxRanges)
StateLists ==
  {l \in StringsUpTo(CheckStates, MaxList) :
     \A i, j \in 1..Len(l) : i # j => l[i] # l[j]}

\* a machine of three states without transitions and the given accepting list
CheckMachine(accepting) ==
  [start |-> 0, transitions |-> <<<<>>, <<>>, <<>>>>, accepting |-> accepting]

\* the characters tried as hexadecimal digits: '1', '4', 'a', 'F', 'g', ' '
HexitChars == {49, 52, 97, 70, 103, 32}

\* what stands behind the backslash of an escape: n, e, \x and two
\* characters, \u and four characters
EscapeSources ==
  {<<110>>, <<101>>}
    \cup {<<120, h1, h2>> : h1 \in HexitChars, h2 \in HexitChars}
    \cup {<<117, h1, h2, h3, h4>> :
            h1 \in {49, 103}, h2 \in HexitChars, h3 \in {52, 103}, h4 \in HexitChars}

InitCheck ==
  /\ \/ \E starts \in RangeLists, ends \in RangeLists, c \in CheckChars :
          /\ Len(starts) = Len(ends)
          /\ chk = [pc |-> "edge", starts |-> starts, ends |-> ends, c |-> c]
     \/ \E accepting \in StateLists, curr \in StateLists, input \in StringsUpTo(Alphabet, 1) :
          chk = [pc |-> "sim", accepting |-> accepting, curr |-> curr, input |-> input]
     \/ \E source \in EscapeSources : chk = [pc |-> "escape", source |-> source]
     \/ \E low \in RangeEnds, high \in RangeEnds, dest \in CheckStates,
            type \in {FSM_TRANS_POSITIVE, FSM_TRANS_NEGATIVE} :
          chk = [pc |-> "single", low |-> low, high |-> high, type |-> type, dest |-> dest]
  /\ AlgebraIdle
  /\ srch = [pc |-> "idle"]
  /\ lex = <<>>
  /\ lexrun = [pc |-> "idle"]
  /\ io = [pc |-> "idle"]
  /\ re = [pc |-> "idle"]

\* fsm_trans_check(ft, c) on the positive and on the negative transition
\* created with the same ranges, and fsm_trans_copy of the positive one
TransCheck ==
  /\ chk.pc = "edge"
  /\ chk' = [pc |-> "checked", starts |-> chk.starts, ends |-> chk.ends, c |-> chk.c,
             positive |-> fsm_trans_check(
                 fsm_trans_create(chk.starts, chk.ends, FSM_TRANS_POSITIVE, 0), chk.c),
             negative |-> fsm_trans_check(
                 fsm_trans_create(chk.starts, chk.ends, FSM_TRANS_NEGATIVE, 0), chk.c),
             copy |-> fsm_trans_copy(
                 fsm_trans_create(chk.starts, chk.ends, FSM_TRANS_POSITIVE, 0))]
  /\ UNCHANGED <<first, second, last, srch, lex, lexrun, io, re>>

\* fsm_sim_nondet_state(s)
SimState ==
  /\ chk.pc = "sim"
  /\ chk' = [pc |-> "stated", accepting |-> chk.accepting, curr |-> chk.curr,
             input |-> chk.input,
             state |-> fsm_sim_nondet_state(
                 [f |-> CheckMachine(chk.accepting), curr |-> chk.curr,
                  input |-> chk.input])]
  /\ UNCHANGED <<first, second, last, srch, lex, lexrun, io, re>>

\* get_escape(&source, EPSILON) with source behind the backslash
GetEscape ==
  /\ chk.pc = "escape"
  /\ LET e == get_escape(chk.source, 1, EPSILON)
     IN chk' = [pc |-> "escaped", source |-> chk.source, value |-> e.value, pos |-> e.pos]
  /\ UNCHANGED <<first, second, last, srch, lex, lexrun, io, re>>

\* fsm_trans_create_single(low, high, type, dest): the edge handed back and
\* whether the message about an invalid range went to stderr
TransCreateSingle ==
  /\ chk.pc = "single"
  /\ chk' = [pc |-> "created", low |-> chk.low, high |-> chk.high,
             ft |-> fsm_trans_create_single(chk.low, chk.high, chk.type, chk.dest),
             message |-> chk.high < chk.low]
  /\ UNCHANGED <<first, second, last, srch, lex, lexrun, io, re>>

NextCheck == TransCheck \/ SimState \/ GetEscape \/ TransCreateSingle

SpecCheck == InitCheck /\ [][NextCheck]_vars

\* some range [start, end] of the lists holds c
SomeRangeContains(starts, ends, c) ==
  \E i \in 1..Len(starts) : starts[i] <= c /\ c <= ends[i]

\* C15: for every edge and every character c the check is true exactly when
\* the edge is positive and some range holds c, or the edge is negative and
\* no range holds c
C15_EdgeAcceptance ==
  chk.pc = "checked" =>
    /\ chk.positive <=> SomeRangeContains(chk.starts, chk.ends, chk.c)
    /\ chk.negative <=> ~SomeRangeContains(chk.starts, chk.ends, chk.c)

\* C16: for any list of ranges and any character other than EPSILON exactly
\* one of the positive and the negative edge over these ranges accepts it
C16_EdgeDuality ==
  (chk.pc = "checked" /\ chk.c # EPSILON) => (chk.positive # chk.negative)

C16_Witness ==
  /\ chk.pc = "checked"
  /\ Len(chk.starts) = 2
  /\ chk.c = 98
  /\ ~SomeRangeContains(<<chk.starts[1]>>, <<chk.ends[1]>>, chk.c)
  /\ chk.positive
  /\ ~chk.negative

\* the two lists share a state
Intersects(l1, l2) == \E i \in 1..Len(l1), j \in 1..Len(l2) : l1[i] = l2[j]

\* C17: the state of a simulation is decided by the current list and by
\* whether input remains: rejected when the list is empty; otherwise accepted
\* / accepting when it meets the accepting list and the input is exhausted /
\* remains, rejected / not accepting when it does not
C17_SimStateTotal ==
  chk.pc = "stated" =>
    chk.state =
      IF chk.curr = <<>> THEN FSM_SIM_REJECTED
      ELSE IF Intersects(chk.curr, chk.accepting)
           THEN (IF chk.input = <<>> THEN FSM_SIM_ACCEPTED ELSE FSM_SIM_ACCEPTING)
           ELSE (IF chk.input = <<>> THEN FSM_SIM_REJECTED ELSE FSM_SIM_NOT_ACCEPTING)

C17_Witness ==
  /\ chk.pc = "stated"
  /\ chk.curr = <<>>
  /\ chk.input # <<>>
  /\ chk.state = FSM_SIM_REJECTED


----------------------------------------------------------------------------
(* Claims about the greedy and overlap flags of the search (SpecSearch) *)

\* C18: a greedy search returns at most one hit, and that hit is the first
\* hit of the same search without greedy; it returns none exactly when the
\* search without greedy returns none; for either value of overlap
C18_GreedyFirstHit ==
  (srch.pc = "returned" /\ srch.greedy) =>
    LET all == fsm_search(srch.f, srch.text, FALSE, srch.overlap)
    IN /\ Len(srch.results) <= 1
       /\ srch.results = <<>> <=> all = <<>>
       /\ srch.results # <<>> => srch.results[1] = all[1]

\* a greedy search that returned its hit where the search without greedy
\* finds a second one
C18_Witness ==
  /\ srch.pc = "returned" /\ srch.greedy
  /\ Len(srch.results) = 1
  /\ srch.results[1].start > 0
  /\ Len(fsm_search(srch.f, srch.text, FALSE, srch.overlap)) >= 2

\* the start indices of the hits returned
HitStarts(results) == {results[k].start : k \in 1..Len(results)}

\* C19: without overlap each hit starts at or after the end of the hit
\* before it; with overlap the scan resumes one character after a hit, so
\* the hits returned are one for every start index with a non-empty
\* accepted prefix
C19_OverlapAdvance ==
  /\ (srch.pc # "idle" /\ ~srch.overlap) =>
       \A k \in 1..(Len(srch.results) - 1) :
         srch.results[k + 1].start >= srch.results[k].start + srch.results[k].length
  /\ (srch.pc # "idle" /\ srch.overlap /\ ~srch.greedy) =>
       /\ \A k \in 1..(Len(srch.results) - 1) :
            srch.results[k + 1].start > srch.results[k].start
       /\ (Len(srch.results) > 0 /\ srch.results[Len(srch.results)].start = srch.iter_start) =>
            srch.start = srch.iter_start + 1
       /\ srch.pc = "returned" =>
            HitStarts(srch.results) =
              {i \in 0..(Len(srch.text) - 1) : AcceptedLengths(srch.f, srch.text, i) # {}}

\* a search with overlap that returned two hits that overlap
C19_WitnessOverlap ==
  /\ srch.pc = "returned" /\ ~srch.greedy /\ srch.overlap
  /\ Len(srch.results) >= 2
  /\ srch.results[2].start < srch.results[1].start + srch.results[1].length

\* a search without overlap that returned after it skipped a start index
\* inside a hit although a prefix is accepted there
C19_WitnessSkip ==
  /\ srch.pc = "returned" /\ ~srch.greedy /\ ~srch.overlap
  /\ Len(srch.results) >= 1
  /\ srch.results[1].length >= 2
  /\ AcceptedLengths(srch.f, srch.text, srch.results[1].start + 1) # {}

C19_Witness == C19_WitnessOverlap \/ C19_WitnessSkip

----------------------------------------------------------------------------
(* Claims about reading a description without a start line (SpecIO) *)

\* the line begins with the label
HasLabel(line, label) ==
  Len(line) > Len(label) /\ SubSeq(line, 1, Len(label)) = label

\* the value of a decimal digit
DigitValue(c) == c - 48

----------------------------------------------------------------------------
(* The regular expression parser: regex.c, str.c.  A regex is the sequence *)
(* of its character codes; a pointer into it is an index from 1, and the   *)
(* index Len + 1 is the terminating NUL.                                   *)

\* fsm_copy is declared in fsm.h and called by check_modifier; it returns a
\* machine of its own with the same start state, accepting states and a copy
\* of every transition
fsm_copy(f) ==
  [start |-> f.start,
   transitions |-> [k \in 1..Len(f.transitions) |->
                      [j \in 1..Len(f.transitions[k]) |-> fsm_trans_copy(f.transitions[k][j])]],
   accepting |-> f.accepting]

\* check_modifier with a bug: + is built like *
check_modifier_plus_is_star(new, regex, i) ==
  LET c == RegexAt(regex, i + 1)
  IN CASE c = 42 -> [f |-> fsm_kleene(new), pos |-> i + 1]
       [] c = 43 -> [f |-> fsm_kleene(new), pos |-> i + 1]
       [] c = 63 -> [f |-> fsm_union(new, EmptyStringFsm), pos |-> i + 1]
       [] OTHER -> [f |-> new, pos |-> i]

\* check_modifier(new, regex) with *regex at index i, the last character of
\* the piece read: the piece under the modifier that follows, if any, and
\* the pointer moved onto the modifier
check_modifier(new, regex, i) ==
  LET c == RegexAt(regex, i + 1)
  IN CASE c = 42 -> [f |-> fsm_kleene(new), pos |-> i + 1]                        \* *
       [] c = 43 -> [f |-> fsm_concat(new, fsm_kleene(fsm_copy(new))), pos |-> i + 1]  \* +
       [] c = 63 -> [f |-> fsm_union(new, EmptyStringFsm), pos |-> i + 1]         \* ?
       [] OTHER -> [f |-> new, pos |-> i]

\* whitespace_fsm: space, \f, \n, \r, \t, \v
whitespace_fsm(type) ==
  CharClassFsm(<<32, 12, 10, 13, 9, 11>>, <<32, 12, 10, 13, 9, 11>>, type)

\* word_fsm: a-z, A-Z, _, 0-9
word_fsm(type) == CharClassFsm(<<97, 65, 95, 48>>, <<122, 90, 95, 57>>, type)

\* digit_fsm: 0-9
digit_fsm(type) == CharClassFsm(<<48>>, <<57>>, type)

\* the conversion of the wchar_t get_escape returns to the `char c` of
\* escaped_fsm (char is signed in the build)
ToChar(v) == LET low == v % 256 IN IF low >= 128 THEN low - 256 ELSE low

\* escaped_fsm(regex) with *regex at index i, the backslash: the machine of
\* the escape and the pointer on the last character of the escape
escaped_fsm(regex, i) ==
  LET specifier == RegexAt(regex, i + 1)
  IN CASE specifier = 115 -> [f |-> whitespace_fsm(FSM_TRANS_POSITIVE), pos |-> i + 1]
       [] specifier = 83 -> [f |-> whitespace_fsm(FSM_TRANS_NEGATIVE), pos |-> i + 1]
       [] specifier = 119 -> [f |-> word_fsm(FSM_TRANS_POSITIVE), pos |-> i + 1]
       [] specifier = 87 -> [f |-> word_fsm(FSM_TRANS_NEGATIVE), pos |-> i + 1]
       [] specifier = 100 -> [f |-> digit_fsm(FSM_TRANS_POSITIVE), pos |-> i + 1]
       [] specifier = 68 -> [f |-> digit_fsm(FSM_TRANS_NEGATIVE), pos |-> i + 1]
       [] OTHER ->
            LET e == get_escape(regex, i + 1, 101)
            IN [f |-> fsm_create_single_char(ToChar(e.value)), pos |-> e.pos - 1]

\* create_char_class with a bug: a hyphen before the closing bracket is
\* dropped
create_char_class_trailing_hyphen_dropped(regex, i) ==
  LET negative == RegexAt(regex, i + 1) = 94
      RECURSIVE loop(_, _, _, _)
      loop(j, starts, ends, range) ==
        IF RegexAt(regex, j) = 93 \/ j > Len(regex)
        THEN [f |-> CharClassFsm(starts,
                                 ends,
                                 IF negative THEN FSM_TRANS_NEGATIVE
                                 ELSE FSM_TRANS_POSITIVE),
              pos |-> j]
        ELSE IF RegexAt(regex, j) = 45 THEN loop(j + 1, starts, ends, TRUE)
        ELSE LET e == IF RegexAt(regex, j) = 92
                      THEN get_escape(regex, j + 1, 101)
                      ELSE [value |-> RegexAt(regex, j), pos |-> j + 1]
             IN IF ~range
                THEN loop(e.pos, Append(starts, e.value), Append(ends, e.value), FALSE)
                ELSE loop(e.pos, starts,
                          IF ends = <<>> THEN ends
                          ELSE [ends EXCEPT ![Len(ends)] = e.value],
                          FALSE)
  IN loop(IF negative THEN i + 2 ELSE i + 1, <<>>, <<>>, FALSE)

\* create_char_class(regex) with *regex at index i, the bracket that opens
\* the class: the machine of the class and the pointer on the closing bracket
create_char_class(regex, i) ==
  LET negative == RegexAt(regex, i + 1) = 94
      RECURSIVE loop(_, _, _, _)
      loop(j, starts, ends, range) ==
        IF RegexAt(regex, j) = 93 \/ j > Len(regex)
        THEN [f |-> CharClassFsm(IF range THEN Append(starts, 45) ELSE starts,
                                 IF range THEN Append(ends, 45) ELSE ends,
                                 IF negative THEN FSM_TRANS_NEGATIVE
                                 ELSE FSM_TRANS_POSITIVE),
              pos |-> j]
        ELSE IF RegexAt(regex, j) = 45 THEN loop(j + 1, starts, ends, TRUE)
        ELSE LET e == IF RegexAt(regex, j) = 92
                      THEN get_escape(regex, j + 1, 101)
                      ELSE [value |-> RegexAt(regex, j), pos |-> j + 1]
             IN IF ~range
                THEN loop(e.pos, Append(starts, e.value), Append(ends, e.value), FALSE)
                ELSE loop(e.pos, starts,
                          IF ends = <<>> THEN ends
                          ELSE [ends EXCEPT ![Len(ends)] = e.value],
                          FALSE)
  IN loop(IF negative THEN i + 2 ELSE i + 1, <<>>, <<>>, FALSE)

\* case L'|' with a bug: the remainder is appended, not united
regex_alternation_concatenates(curr, rest) ==
  [f |-> fsm_concat(curr, rest.f), final |-> rest.final]

\* case L'|' of create_regex_fsm_recursive: the machine read so far united
\* with the machine of the remainder, and the remainder's final pointer
regex_alternation(curr, rest) ==
  [f |-> fsm_union(curr, rest.f), final |-> rest.final]

\* create_regex_fsm_recursive(regex, final) with the pointer at index i:
\* the machine, and *final
RECURSIVE create_regex_fsm_recursive(_, _)
create_regex_fsm_recursive(regex, i) ==
  LET RECURSIVE loop(_, _)
      loop(curr, j) ==
        LET c == RegexAt(regex, j)
        IN IF c = 0 THEN [f |-> curr, final |-> j]
           ELSE IF c = 40
           THEN LET sub == create_regex_fsm_recursive(regex, j + 1)
                    new == check_modifier(sub.f, regex, sub.final)
                IN loop(fsm_concat(curr, new.f), new.pos + 1)
           ELSE IF c = 41 THEN [f |-> curr, final |-> j]
           ELSE IF c = 124
           THEN regex_alternation(curr, create_regex_fsm_recursive(regex, j + 1))
           ELSE IF c = 91
           THEN LET class == create_char_class(regex, j)
                    new == check_modifier(class.f, regex, class.pos)
                IN loop(fsm_concat(curr, new.f), new.pos + 1)
           ELSE IF c = 92
           THEN LET esc == escaped_fsm(regex, j)
                    new == check_modifier(esc.f, regex, esc.pos)
                IN loop(fsm_concat(curr, new.f), new.pos + 1)
           ELSE LET new == check_modifier(fsm_create_single_char(c), regex, j)
                IN loop(fsm_concat(curr, new.f), new.pos + 1)
  IN loop(EmptyStringFsm, i)

\* create_regex_fsm, the regex_parse of the callers
create_regex_fsm(regex) == create_regex_fsm_recursive(regex, 1).f


----------------------------------------------------------------------------
(* The parser harness: a pattern is parsed, then inputs are simulated *)

\* longest pattern made of letters only
MaxLiteral == 3
\* longest operand of an alternation
MaxOperand == 2
\* longest input over the characters that tell the classes apart
MaxClassInput == 2

\* 'a', 'b', '0', ' ', '_'
ClassChars == {97, 98, 48, 32, 95}

Literals == StringsUpTo(Alphabet, MaxLiteral)
Operands == StringsUpTo(Alphabet, MaxOperand)
\* what stands before and behind the piece under a modifier or a group
Contexts == StringsUpTo(Alphabet, 1)

\* a  b  [ab]  (ab)  \d
Atoms ==
  { <<97>>, <<98>>, <<91, 97, 98, 93>>, <<40, 97, 98, 41>>, <<92, 100>> }

\* *  +  ?
Modifiers == {<<42>>, <<43>>, <<63>>}

\* an atom and the modifier behind it; the group (a|b) under * and ?
Pieces ==
  (Atoms \X Modifiers) \cup ({<<40, 97, 124, 98, 41>>} \X {<<42>>, <<63>>})

\* [^a]  [^ab]  [^a-b]  \S  \W  \D
NegativeClasses ==
  { <<91, 94, 97, 93>>, <<91, 94, 97, 98, 93>>, <<91, 94, 97, 45, 98, 93>>,
    <<92, 83>>, <<92, 87>>, <<92, 68>> }

\* [ab]  [a-b]  \s  \w  \d
PositiveClasses ==
  { <<91, 97, 98, 93>>, <<91, 97, 45, 98, 93>>, <<92, 115>>, <<92, 119>>, <<92, 100>> }

Patterns ==
  Literals
    \cup {A \o <<124>> \o B : A \in Operands, B \in Operands}
    \cup {A \o <<124>> \o B \o <<124>> \o C : A \in Contexts, B \in Contexts, C \in Contexts}
    \cup {P \o <<40>> \o A \o <<124>> \o B \o <<41>> \o S :
            P \in Contexts, A \in Contexts, B \in Contexts, S \in Contexts}
    \cup {P \o piece[1] \o piece[2] \o S : P \in Contexts, piece \in Pieces, S \in Contexts}
    \cup NegativeClasses \cup PositiveClasses

RegexInputs == Inputs \cup StringsUpTo(ClassChars, MaxClassInput)

InitRegex ==
  /\ re = [pc |-> "idle"]
  /\ chk = [pc |-> "idle"]
  /\ AlgebraIdle
  /\ srch = [pc |-> "idle"]
  /\ lex = <<>>
  /\ lexrun = [pc |-> "idle"]
  /\ io = [pc |-> "idle"]

\* regex_parse(pattern)
RegexParse(pattern) ==
  /\ re.pc = "idle"
  /\ re' = [pc |-> "parsed", pattern |-> pattern, f |-> create_regex_fsm(pattern)]
  /\ UNCHANGED <<first, second, last, srch, lex, lexrun, io, chk>>

\* fsm_sim_nondet(f, input) on the machine parsed
RegexSim(input) ==
  /\ re.pc = "parsed"
  /\ re' = [pc |-> "simulated", pattern |-> re.pattern, f |-> re.f, input |-> input,
            accepted |-> fsm_sim_nondet(re.f, input)]
  /\ UNCHANGED <<first, second, last, srch, lex, lexrun, io, chk>>

NextRegex ==
  \/ \E pattern \in Patterns : RegexParse(pattern)
  \/ \E input \in RegexInputs : RegexSim(input)

SpecRegex == InitRegex /\ [][NextRegex]_vars


----------------------------------------------------------------------------
(* Claims about the parser (SpecRegex) *)

\* the characters the parser gives a meaning:  ( ) * + ? [ \ ] |
MetaChars == {40, 41, 42, 43, 63, 91, 92, 93, 124}

IsOrdinary(p) == \A i \in 1..Len(p) : p[i] \notin MetaChars

\* C11: the machine parsed from a pattern of ordinary characters accepts the
\* pattern itself and nothing else: not the empty string when the pattern is
\* not empty, no proper prefix and no proper extension of the pattern
C11_LiteralPattern ==
  (re.pc = "simulated" /\ IsOrdinary(re.pattern)) =>
    (re.accepted <=> re.input = re.pattern)

\* a pattern of three letters that rejected a proper prefix of itself
C11_WitnessPrefix ==
  /\ re.pc = "simulated"
  /\ re.pattern = <<97, 98, 97>>
  /\ re.input = <<97, 98>>
  /\ ~re.accepted

\* a pattern of two letters that accepted itself, or rejected an extension
C11_WitnessSelf ==
  /\ re.pc = "simulated"
  /\ re.pattern = <<97, 98>>
  /\ \/ re.input = <<97, 98>> /\ re.accepted
     \/ re.input = <<97, 98, 97>> /\ ~re.accepted

C11_Witness == C11_WitnessPrefix \/ C11_WitnessSelf

\* the input is accepted by the machine parsed from the pattern
Matches(pattern, input) == fsm_sim_nondet(create_regex_fsm(pattern), input)

\* C12: a pattern A|B, with A and B concatenations, accepts what A accepts
\* and what B accepts; A|B|C groups to the right; inside parentheses the
\* union is the machine of the group and what follows the closing
\* parenthesis is appended to it
C12_Alternation ==
  re.pc = "simulated" =>
    /\ \A A \in Operands, B \in Operands :
         re.pattern = A \o <<124>> \o B =>
           (re.accepted <=> (re.input = A \/ re.input = B))
    /\ \A A \in Contexts, B \in Contexts, C \in Contexts :
         re.pattern = A \o <<124>> \o B \o <<124>> \o C =>
           (re.accepted <=> (Matches(A, re.input) \/ Matches(B \o <<124>> \o C, re.input)))
    /\ \A P \in Contexts, A \in Contexts, B \in Contexts, S \in Contexts :
         re.pattern = P \o <<40>> \o A \o <<124>> \o B \o <<41>> \o S =>
           (re.accepted <=>
              \E k \in 0..Len(re.input), l \in 0..Len(re.input) :
                /\ k <= l
                /\ Matches(P, SubSeq(re.input, 1, k))
                /\ \/ Matches(A, SubSeq(re.input, k + 1, l))
                   \/ Matches(B, SubSeq(re.input, k + 1, l))
                /\ Matches(S, SubSeq(re.input, l + 1, Len(re.input))))

\* a(b|a)b accepted aab: the second operand inside the group, then the rest
C12_Witness ==
  /\ re.pc = "simulated"
  /\ re.pattern = <<97, 40, 98, 124, 97, 41, 98>>
  /\ re.input = <<97, 97, 98>>
  /\ re.accepted


\* the strings v such that the input is P.v.S
Middles(P, S, input) ==
  {SubSeq(input, Len(P) + 1, Len(input) - Len(S)) : x \in
     {y \in {0} : /\ Len(input) >= Len(P) + Len(S)
                  /\ SubSeq(input, 1, Len(P)) = P
                  /\ SubSeq(input, Len(input) - Len(S) + 1, Len(input)) = S}}

\* the strings of the harness the atom accepts
AtomLang(X) == {x \in RegexInputs : Matches(X, x)}

\* v is a repetition of strings of L as the modifier m allows
Repeats(L, m, v) ==
  CASE m = <<42>> -> v = <<>> \/ InPlus(L, v)
    [] m = <<43>> -> InPlus(L, v)
    [] m = <<63>> -> v = <<>> \/ v \in L

\* C13: a modifier applies to the atom right before it and to nothing else:
\* P X* S accepts P, then zero or more strings of X, then S; X+ one or more;
\* X? zero or one; the machine of X+ alone is concat(X, star(copy of X))
\* appended to the machine of the empty string
C13_PostfixModifier ==
  re.pc = "simulated" =>
    \A P \in Contexts, piece \in Pieces, S \in Contexts :
      LET X == piece[1]
          m == piece[2]
      IN re.pattern = P \o X \o m \o S =>
           /\ re.accepted <=>
                \E v \in Middles(P, S, re.input) : Repeats(AtomLang(X), m, v)
           /\ (m = <<43>> /\ P = <<>> /\ S = <<>> /\ Len(X) = 1) =>
                LET atom == fsm_create_single_char(X[1])
                IN re.f = fsm_concat(EmptyStringFsm,
                                     fsm_concat(atom, fsm_kleene(fsm_copy(atom))))

\* ab+ accepted abb
C13_WitnessPlus ==
  /\ re.pc = "simulated"
  /\ re.pattern = <<97, 98, 43>>
  /\ re.input = <<97, 98, 98>>
  /\ re.accepted

\* b(ab)*a accepted ba
C13_WitnessStar ==
  /\ re.pc = "simulated"
  /\ re.pattern = <<98, 40, 97, 98, 41, 42, 97>>
  /\ re.input = <<98, 97>>
  /\ re.accepted

\* ab? rejected abb
C13_WitnessOptional ==
  /\ re.pc = "simulated"
  /\ re.pattern = <<97, 98, 63>>
  /\ re.input = <<97, 98, 98>>
  /\ ~re.accepted

C13_Witness == C13_WitnessPlus \/ C13_WitnessStar \/ C13_WitnessOptional


\* the characters a class of the harness lists
Listed(pattern) ==
  CASE pattern \in {<<91, 94, 97, 93>>} -> {97}
    [] pattern \in {<<91, 94, 97, 98, 93>>, <<91, 94, 97, 45, 98, 93>>,
                    <<91, 97, 98, 93>>, <<91, 97, 45, 98, 93>>} -> {97, 98}
    [] pattern \in {<<92, 115>>, <<92, 83>>} -> {32, 12, 10, 13, 9, 11}
    [] pattern \in {<<92, 119>>, <<92, 87>>} ->
         (97..122) \cup (65..90) \cup {95} \cup (48..57)
    [] pattern \in {<<92, 100>>, <<92, 68>>} -> 48..57

\* C14: the machine of a negated class accepts exactly the strings of one
\* character outside the listed set, so not the empty string; the machine of
\* a positive class accepts exactly the strings of one character inside it
C14_ClassLanguage ==
  re.pc = "simulated" =>
    /\ re.pattern \in NegativeClasses =>
         (re.accepted <=> (Len(re.input) = 1 /\ re.input[1] \notin Listed(re.pattern)))
    /\ re.pattern \in PositiveClasses =>
         (re.accepted <=> (Len(re.input) = 1 /\ re.input[1] \in Listed(re.pattern)))

\* the positive half of C14 alone
ClassLanguagePositive ==
  (re.pc = "simulated" /\ re.pattern \in PositiveClasses) =>
    (re.accepted <=> (Len(re.input) = 1 /\ re.input[1] \in Listed(re.pattern)))

\* the negative half of C14 for inputs that are not empty
ClassLanguageNegativeNonEmpty ==
  (re.pc = "simulated" /\ re.pattern \in NegativeClasses /\ re.input # <<>>) =>
    (re.accepted <=> (Len(re.input) = 1 /\ re.input[1] \notin Listed(re.pattern)))


----------------------------------------------------------------------------
(* Claims about the states and edges a read creates (SpecIO) *)

\* the lines of a text behind the start line, if it has one
AfterStart(lines) ==
  IF lines # <<>> /\ HasLabel(lines[1], StartLabel) THEN Tail(lines) ELSE lines

\* the number of accept lines at the head of the lines
RECURSIVE AcceptCount(_)
AcceptCount(lines) ==
  IF lines # <<>> /\ HasLabel(lines[1], AcceptLabel)
  THEN 1 + AcceptCount(Tail(lines)) ELSE 0

\* the accept lines of a text and the lines behind them
AcceptLines(text) ==
  LET rest == AfterStart(split_lines(text)) IN SubSeq(rest, 1, AcceptCount(rest))

BodyLines(text) ==
  LET rest == AfterStart(split_lines(text))
  IN SubSeq(rest, AcceptCount(rest) + 1, Len(rest))

\* a line  <digit>-<digit>:<+ or -><c>-<c>...  with at least one range
IsTransitionLine(line) ==
  /\ Len(line) >= 8
  /\ IsDigit(line[1]) /\ line[2] = 45 /\ IsDigit(line[3]) /\ line[4] = 58
  /\ line[5] \in {43, 45}

\* the lines among the first n of the body whose source state is k
FromState(body, k) ==
  LET Test(line) == DigitValue(line[1]) = k IN SelectSeq(body, Test)

\* C21: after a read whose lines behind the header are all transition
\* lines, the machine has 1 + the largest state index a transition line
\* names states; the states made on the way are not accepting (the accepting
\* list is what the accept lines say) and carry only the edges of the lines
\* that name them as source, in line order
C21_LazyStates ==
  (io.pc = "parsed" /\ split_lines(io.text) # <<>>
     /\ \A i \in 1..Len(BodyLines(io.text)) : IsTransitionLine(BodyLines(io.text)[i])) =>
    LET body == BodyLines(io.text)
        accepts == AcceptLines(io.text)
        named == {DigitValue(body[i][1]) : i \in 1..Len(body)}
                   \cup {DigitValue(body[i][3]) : i \in 1..Len(body)}
    IN /\ Len(io.g.transitions) = IF body = <<>> THEN 0 ELSE 1 + Max(named)
       /\ io.g.accepting =
            [i \in 1..Len(accepts) |-> DigitValue(accepts[i][Len(AcceptLabel) + 1])]
       /\ \A k \in 0..(Len(io.g.transitions) - 1) :
            LET edges == io.g.transitions[k + 1]
                from == FromState(body, k)
            IN /\ Len(edges) = Len(from)
               /\ \A j \in 1..Len(edges) :
                    /\ edges[j].dest = DigitValue(from[j][3])
                    /\ edges[j].type = IF from[j][5] = 43 THEN FSM_TRANS_POSITIVE
                                       ELSE FSM_TRANS_NEGATIVE

\* 3-1:+b-b read before 1-0:-b-b and 1-1:+a-a b-b: states 0 and 2 made
\* without edges, state 1 with its two edges in line order
C21_Witness ==
  /\ io.pc = "parsed"
  /\ BodyLines(io.text) = << <<51, 45, 49, 58, 43, 98, 45, 98>>,
                             <<49, 45, 48, 58, 45, 98, 45, 98>>,
                             <<49, 45, 49, 58, 43, 97, 45, 97, 32, 98, 45, 98>> >>
  /\ Len(io.g.transitions) = 4
  /\ io.g.transitions[3] = <<>>
  /\ Len(io.g.transitions[2]) = 2
  /\ io.g.transitions[2][1].dest = 0
  /\ io.g.transitions[2][2].dest = 1


\* C22: a read of a text with a malformed transition line fails: it
\* returns no machine
C22_MalformedLineFails ==
  (io.pc = "parsed"
     /\ \E i \in 1..Len(BodyLines(io.text)) : ~IsTransitionLine(BodyLines(io.text)[i])) =>
    ~io.ok


----------------------------------------------------------------------------
(* Claims about escapes (SpecCheck) *)

IsHexit(c) == c \in (48..57) \cup (97..102) \cup (65..70)

\* a \x or \u escape one of whose digits is not hexadecimal
BadHexEscape(source) ==
  /\ source[1] \in {120, 117}
  /\ \E i \in 2..Len(source) : ~IsHexit(source[i])

\* the code points a character can have
CharacterValues == 0..1114111

\* C23: an \x or \u escape with a character that is not a hexadecimal digit
\* fails: the decoder hands no character value made from the digits to its
\* caller
C23_BadHexEscapeFails ==
  (chk.pc = "escaped" /\ BadHexEscape(chk.source)) => chk.value \notin CharacterValues


----------------------------------------------------------------------------
(* Loading a lexer description: lex.c *)

\* most lines of a lexer description
MaxDescLines == 3

\* lex_load_line with a bug: a line without a tab is passed over in silence
lex_load_line_missing_tab_ignored(obj, line) ==
  LET i == IF \E p \in 1..Len(line) : line[p] = 9
           THEN CHOOSE p \in 1..Len(line) : line[p] = 9 /\ \A q \in 1..(p - 1) : line[q] # 9
           ELSE Len(line) + 1
  IN IF i > Len(line)
     THEN [obj |-> obj, status |-> "SMB_SUCCESS"]
     ELSE CHOOSE r \in {[obj |-> lex_add_pattern(obj, create_regex_fsm(regex), token),
                         status |-> "SMB_SUCCESS"] :
                          regex \in {SubSeq(line, 1, i - 1)},
                          token \in {SubSeq(line, i + 1, Len(line))}} : TRUE

\* lex_load_line: the line is cut at its first tab into regex and token
lex_load_line(obj, line) ==
  LET i == IF \E p \in 1..Len(line) : line[p] = 9
           THEN CHOOSE p \in 1..Len(line) : line[p] = 9 /\ \A q \in 1..(p - 1) : line[q] # 9
           ELSE Len(line) + 1
  IN IF i > Len(line)
     THEN [obj |-> obj, status |-> "SMB_INDEX_ERROR"]
     ELSE CHOOSE r \in {[obj |-> lex_add_pattern(obj, create_regex_fsm(regex), token),
                         status |-> "SMB_SUCCESS"] :
                          regex \in {SubSeq(line, 1, i - 1)},
                          token \in {SubSeq(line, i + 1, Len(line))}} : TRUE

\* lex_load: the lines in order, comment lines passed over, until a line
\* fails
lex_load(obj, str) ==
  LET RECURSIVE loop(_, _, _)
      loop(lines, k, o) ==
        IF k > Len(lines) THEN [obj |-> o, status |-> "SMB_SUCCESS"]
        ELSE IF lines[k] # <<>> /\ lines[k][1] = 35 THEN loop(lines, k + 1, o)
        ELSE CHOOSE res \in {IF r.status # "SMB_SUCCESS" THEN r
                             ELSE loop(lines, k + 1, r.obj) :
                               r \in {lex_load_line(o, lines[k])}} : TRUE
  IN CHOOSE res \in {loop(lines, 1, obj) : lines \in {split_lines(str)}} : TRUE

\* what a token pointer yields when the freed buffer no longer holds the name
FreedToken == <<-1>>

\* the token strings of the patterns lex_load added point into buf, which
\* lex_load frees before it returns: each reads as the name or as whatever
\* the freed memory holds
RECURSIVE AfterFree(_)
AfterFree(obj) ==
  IF obj = <<>> THEN {<<>>}
  ELSE {<<[pattern |-> obj[1].pattern, token |-> t]>> \o rest :
          t \in {obj[1].token, FreedToken}, rest \in AfterFree(Tail(obj))}

\* a<TAB>A   ab<TAB>B   #a<TAB>A   b   and the empty line
DescLines ==
  { <<97, 9, 65>>, <<97, 98, 9, 66>>, <<35, 97, 9, 65>>, <<98>>, <<>> }

RECURSIVE JoinLines(_)
JoinLines(ls) ==
  IF ls = <<>> THEN <<>>
  ELSE IF Len(ls) = 1 THEN ls[1]
  ELSE ls[1] \o NewlineChar \o JoinLines(Tail(ls))

\* the descriptions: lines joined by newlines, the last one with or without
\* its newline
Descriptions ==
  LET seqs == UNION {[1..n -> DescLines] : n \in 0..MaxDescLines}
  IN {JoinLines(ls) : ls \in seqs} \cup {JoinLines(ls) \o NewlineChar : ls \in seqs}

InitLoad ==
  /\ lex = <<>>
  /\ lexrun = [pc |-> "idle"]
  /\ AlgebraIdle
  /\ srch = [pc |-> "idle"]
  /\ io = [pc |-> "idle"]
  /\ RestIdle

\* lex_load(obj, str, &status) on a lexer just created
LexLoad(str) ==
  /\ lexrun.pc = "idle"
  /\ LET r == lex_load(lex, str)
     IN /\ lex' \in AfterFree(r.obj)
        /\ lexrun' = [pc |-> "loaded", str |-> str, status |-> r.status]
  /\ UNCHANGED <<first, second, last, srch, io, chk, re>>

NextLoad == \E str \in Descriptions : LexLoad(str)

SpecLoad == InitLoad /\ [][NextLoad]_vars

----------------------------------------------------------------------------
(* Claims about loading a lexer description (SpecLoad) *)

\* the lines of a text: each ends at a newline, the last one at the end of
\* the text
RECURSIVE TextLines(_)
TextLines(text) ==
  IF text = <<>> THEN <<>>
  ELSE LET n == IF \E p \in 1..Len(text) : text[p] = 10
                THEN Min({p \in 1..Len(text) : text[p] = 10})
                ELSE Len(text) + 1
       IN <<SubSeq(text, 1, n - 1)>> \o TextLines(SubSeq(text, n + 1, Len(text)))

IsComment(line) == line # <<>> /\ line[1] = 35

HasTab(line) == \E p \in 1..Len(line) : line[p] = 9

\* the lines that are not comments
RuleLines(text) == SelectSeq(TextLines(text), LAMBDA l : ~IsComment(l))

TabAt(line) == Min({p \in 1..Len(line) : line[p] = 9})

RegexOf(line) == SubSeq(line, 1, TabAt(line) - 1)

NameOf(line) == SubSeq(line, TabAt(line) + 1, Len(line))

\* C24: after a successful lex_load the lexer holds one pair per line that
\* is not a comment, in line order: the machine of the line's regex and the
\* line's token name
C24_LoadedPairs ==
  (lexrun.pc = "loaded" /\ lexrun.status = "SMB_SUCCESS") =>
    LET rules == RuleLines(lexrun.str)
    IN /\ Len(lex) = Len(rules)
       /\ \A i \in 1..Len(rules) :
            /\ lex[i].pattern = create_regex_fsm(RegexOf(rules[i]))
            /\ lex[i].token = NameOf(rules[i])

\* the part of C24 that lex_load keeps: the number and the machines of the
\* loaded patterns, in line order
LoadedPatternsInOrder ==
  (lexrun.pc = "loaded" /\ lexrun.status = "SMB_SUCCESS") =>
    LET rules == RuleLines(lexrun.str)
    IN /\ Len(lex) = Len(rules)
       /\ \A i \in 1..Len(rules) :
            lex[i].pattern = create_regex_fsm(RegexOf(rules[i]))

\* C25: lex_load reports the error exactly when a line that is not a
\* comment has no tab; the patterns of the lines before the first such line
\* stay, none of a later line is added
C25_BadLineStopsLoad ==
  lexrun.pc = "loaded" =>
    LET rules == RuleLines(lexrun.str)
        bad == {i \in 1..Len(rules) : ~HasTab(rules[i])}
        n == IF bad = {} THEN Len(rules) ELSE Min(bad) - 1
    IN /\ lexrun.status = "SMB_INDEX_ERROR" <=> bad # {}
       /\ Len(lex) = n
       /\ \A i \in 1..n : lex[i].pattern = create_regex_fsm(RegexOf(rules[i]))

\* a rule, a line without a tab, a rule: the load failed with one pattern
C25_Witness ==
  /\ lexrun.pc = "loaded"
  /\ lexrun.status = "SMB_INDEX_ERROR"
  /\ Len(lex) = 1
  /\ LET rules == RuleLines(lexrun.str)
     IN Len(rules) = 3 /\ HasTab(rules[1]) /\ ~HasTab(rules[2]) /\ HasTab(rules[3])

----------------------------------------------------------------------------
(* The deterministic simulator: simulation.c *)

\* fsm_sim_det: one current state; the first edge of the state's list that
\* passes fsm_trans_check is followed, none is an immediate reject
fsm_sim_det(f, input) ==
  LET RECURSIVE walk(_, _)
      walk(state, i) ==
        IF i > Len(input) THEN InList(f.accepting, state)
        ELSE LET list == f.transitions[state + 1]
                 hits == {j \in 1..Len(list) : fsm_trans_check(list[j], input[i])}
             IN IF hits = {} THEN FALSE
                ELSE walk(list[Min(hits)].dest, i + 1)
  IN walk(f.start, 1)

\* edges over one character, of either polarity, into state 0 or 1
DetEdges ==
  {fsm_trans_create_single(c, c, type, dest) :
     c \in Alphabet, type \in {FSM_TRANS_POSITIVE, FSM_TRANS_NEGATIVE}, dest \in {0, 1}}

\* two states without epsilon edges: up to two edges out of state 0, up to
\* one out of state 1, one of the states accepting
DetMachines ==
  {[start |-> 0, transitions |-> <<l0, l1>>, accepting |-> acc] :
     l0 \in {<<>>} \cup {<<e>> : e \in DetEdges} \cup {<<e, g>> : e \in DetEdges, g \in DetEdges},
     l1 \in {<<>>} \cup {<<e>> : e \in DetEdges},
     acc \in {<<0>>, <<1>>}}

InitDet ==
  /\ \E f \in DetMachines, input \in Inputs : chk = [pc |-> "det", f |-> f, input |-> input]
  /\ AlgebraIdle
  /\ srch = [pc |-> "idle"]
  /\ lex = <<>>
  /\ lexrun = [pc |-> "idle"]
  /\ io = [pc |-> "idle"]
  /\ re = [pc |-> "idle"]

\* fsm_sim_det(f, input) and fsm_sim_nondet(f, input) on the same machine
SimDet ==
  /\ chk.pc = "det"
  /\ chk' = [pc |-> "simulated", f |-> chk.f, input |-> chk.input,
             det |-> fsm_sim_det(chk.f, chk.input),
             nondet |-> fsm_sim_nondet(chk.f, chk.input)]
  /\ UNCHANGED <<first, second, last, srch, lex, lexrun, io, re>>

NextDet == SimDet

SpecDet == InitDet /\ [][NextDet]_vars

\* the characters an edge of DetMachines can tell apart: a, b and any other
DetChars == Alphabet \cup {99}

\* no edge of f is an epsilon edge or has EPSILON in a range
EpsilonFree(f) ==
  \A k \in 1..Len(f.transitions) : \A j \in 1..Len(f.transitions[k]) :
    LET ft == f.transitions[k][j]
    IN /\ ~IsEpsilonEdge(ft)
       /\ \A r \in 1..Len(ft.start) : ~(ft.start[r] <= EPSILON /\ EPSILON <= ft.end[r])

\* the ranges of the edge, read by its polarity, take the character
EdgeTakes(ft, c) ==
  LET inside == \E r \in 1..Len(ft.start) : ft.start[r] <= c /\ c <= ft.end[r]
  IN IF ft.type = FSM_TRANS_POSITIVE THEN inside ELSE ~inside

\* each state has at most one outgoing edge that takes a given character
Deterministic(f) ==
  \A k \in 1..Len(f.transitions) : \A c \in DetChars :
    Cardinality({j \in 1..Len(f.transitions[k]) : EdgeTakes(f.transitions[k][j], c)}) <= 1

\* C26: on an epsilon-free machine whose states have at most one edge for
\* a character, fsm_sim_det and fsm_sim_nondet give the same answer for
\* every input
C26_DetEqualsNondet ==
  (chk.pc = "simulated" /\ EpsilonFree(chk.f) /\ Deterministic(chk.f)) =>
    chk.det = chk.nondet

\* the same with positive edges only, where the closure of
\* fsm_sim_nondet has nothing to follow
DetEqualsNondetPositive ==
  (/\ chk.pc = "simulated"
   /\ Deterministic(chk.f)
   /\ \A k \in 1..Len(chk.f.transitions) : \A j \in 1..Len(chk.f.transitions[k]) :
        chk.f.transitions[k][j].type = FSM_TRANS_POSITIVE) =>
    chk.det = chk.nondet

\* two edges take the character: fsm_sim_det goes on with the first of them
DetFollowsFirstEdge ==
  (/\ chk.pc = "simulated"
   /\ Len(chk.input) = 1
   /\ Len(chk.f.transitions[1]) = 2
   /\ EdgeTakes(chk.f.transitions[1][1], chk.input[1])) =>
    chk.det = InList(chk.f.accepting, chk.f.transitions[1][1].dest)

----------------------------------------------------------------------------
(* Claims about the making of an edge (SpecCheck) *)

\* C27: fsm_trans_create_single with high < low fails: the caller gets no
\* edge whose range is inverted
C27_InvertedRangeFails ==
  (chk.pc = "created" /\ chk.high < chk.low) =>
    ~(chk.ft.end[1] < chk.ft.start[1])

----------------------------------------------------------------------------
(* Claims about the epsilon closure and the current set (Spec) *)

\* the states of a list
StateSet(list) == {list[i] : i \in 1..Len(list)}

\* C28: the closure of a state is the set of states reachable from it by
\* zero or more (EPSILON, EPSILON) edges; the destination of a range edge
\* of either polarity is not added
C28_ClosureOnlyEpsilonEdges ==
  \A k \in 0..(NumStates(first) - 1) :
    StateSet(fsm_sim_nondet_epsilon_closure(first, k)) = EpsilonReach(first, {k})

\* the same on the machines that have no negative edge
ClosureOnlyEpsilonEdgesPositive ==
  (\A k \in 1..NumStates(first) : \A j \in 1..Len(first.transitions[k]) :
     first.transitions[k][j].type = FSM_TRANS_POSITIVE) =>
    \A k \in 0..(NumStates(first) - 1) :
      StateSet(fsm_sim_nondet_epsilon_closure(first, k)) = EpsilonReach(first, {k})

\* the simulation of f on w after fsm_sim_nondet_begin and n calls of
\* fsm_sim_nondet_step
RECURSIVE SimAfter(_, _, _)
SimAfter(f, w, n) ==
  IF n = 0 THEN fsm_sim_nondet_begin(f, w)
  ELSE fsm_sim_nondet_step(SimAfter(f, w, n - 1))

NoDuplicates(list) ==
  \A i \in 1..Len(list) : \A j \in 1..Len(list) : list[i] = list[j] => i = j

\* what C29 says of the current set after n steps on w
CurrentSetAsClaimed(f, w, n) ==
  LET curr == SimAfter(f, w, n).curr
  IN /\ NoDuplicates(curr)
     /\ EpsilonReach(f, StateSet(curr)) = StateSet(curr)
     /\ n = 0 => StateSet(curr) = EpsilonReach(f, {f.start})
     /\ n > 0 => StateSet(curr) =
                   EpsilonReach(f, Consume(f, StateSet(SimAfter(f, w, n - 1).curr), w[n]))

\* C29: after begin and after every step the current set has no
\* duplicate and is closed under epsilon edges; after begin it is the
\* epsilon closure of the start state, after a step over c the epsilon
\* closure of the destinations of the edges out of the previous set that
\* accept c
C29_CurrentSet ==
  \A w \in Inputs : \A n \in 0..Len(w) : CurrentSetAsClaimed(first, w, n)

\* the part of C29 that holds on every machine: no duplicate, closed under
\* epsilon edges
CurrentSetClosedNoDuplicates ==
  \A w \in Inputs : \A n \in 0..Len(w) :
    LET curr == SimAfter(first, w, n).curr
    IN NoDuplicates(curr) /\ EpsilonReach(first, StateSet(curr)) = StateSet(curr)

\* C29 on the machines that have no negative edge
CurrentSetPositive ==
  (\A k \in 1..NumStates(first) : \A j \in 1..Len(first.transitions[k]) :
     first.transitions[k][j].type = FSM_TRANS_POSITIVE) =>
    \A w \in Inputs : \A n \in 0..Len(w) : CurrentSetAsClaimed(first, w, n)

----------------------------------------------------------------------------
(* Claims about the machine a read returns (SpecIO) *)

\* C30: the machine of a successful read has a start state and accepting
\* states that are states of the machine, whatever indices the start line
\* and the accept lines name
C30_ReadValidIndices ==
  (io.pc = "parsed" /\ io.ok) =>
    /\ ValidState(io.g, io.g.start)
    /\ \A i \in 1..Len(io.g.accepting) : ValidState(io.g, io.g.accepting[i])

\* the same for the texts whose transition lines name every index of the
\* start line and of the accept lines
ReadValidIndicesCovered ==
  (/\ io.pc = "parsed"
   /\ io.ok
   /\ io.g.start < NumStates(io.g)
   /\ \A i \in 1..Len(io.g.accepting) : io.g.accepting[i] < NumStates(io.g)) =>
    WellFormed(io.g)

----------------------------------------------------------------------------
(* Character classes through the parser: regex.c *)

\* most characters between the brackets of a class
MaxClassBody == 4

\* what stands between the brackets: a, b and '-', no '-' in front and no
\* two of them in a row
ClassBodies ==
  {w \in StringsUpTo(Alphabet \cup {45}, MaxClassBody) :
     /\ w # <<>>
     /\ w[1] # 45
     /\ \A k \in 1..(Len(w) - 1) : ~(w[k] = 45 /\ w[k + 1] = 45)}

\* [body] and [^body]
ClassPatterns ==
  {<<91>> \o w \o <<93>> : w \in ClassBodies}
    \cup {<<91, 94>> \o w \o <<93>> : w \in ClassBodies}

InitClass ==
  /\ re = [pc |-> "idle"]
  /\ chk = [pc |-> "idle"]
  /\ AlgebraIdle
  /\ srch = [pc |-> "idle"]
  /\ lex = <<>>
  /\ lexrun = [pc |-> "idle"]
  /\ io = [pc |-> "idle"]

\* regex_parse(pattern) on a pattern that is one character class
ClassParse(pattern) ==
  /\ re.pc = "idle"
  /\ re' = [pc |-> "class", pattern |-> pattern, f |-> create_regex_fsm(pattern)]
  /\ UNCHANGED <<first, second, last, srch, lex, lexrun, io, chk>>

NextClass == \E pattern \in ClassPatterns : ClassParse(pattern)

SpecClass == InitClass /\ [][NextClass]_vars

----------------------------------------------------------------------------
(* Claims about character classes (SpecClass) *)

\* the edges of f that are not epsilon edges, state by state
RangeEdges(f) ==
  {f.transitions[k][j] :
     <<k, j>> \in {<<k, j>> \in (1..Len(f.transitions)) \X (1..MaxStates) :
                     /\ j <= Len(f.transitions[k])
                     /\ ~IsEpsilonEdge(f.transitions[k][j])}}

\* C31: every range of every edge of the machine regex_parse returns has
\* low <= high, ranges written x-y in a class among them
C31_RangesOrdered ==
  re.pc = "class" =>
    \A ft \in RangeEdges(re.f) : \A r \in 1..Len(ft.start) : ft.start[r] <= ft.end[r]

\* the same for the classes whose x-y ranges are written low first
RangesOrderedWhenWrittenInOrder ==
  (re.pc = "class" /\ \A k \in 2..(Len(re.pattern) - 1) :
                        re.pattern[k] = 45
                          => (re.pattern[k + 1] = 93 \/ re.pattern[k - 1] <= re.pattern[k + 1])) =>
    \A ft \in RangeEdges(re.f) : \A r \in 1..Len(ft.start) : ft.start[r] <= ft.end[r]

\* what stands between the brackets of a class pattern
ClassBody(pattern) ==
  IF pattern[2] = 94 THEN SubSeq(pattern, 3, Len(pattern) - 1)
  ELSE SubSeq(pattern, 2, Len(pattern) - 1)

\* the places of the characters that open a pair: not a hyphen and not
\* behind one
PairOpeners(body) ==
  {p \in 1..Len(body) : body[p] # 45 /\ (p = 1 \/ body[p - 1] # 45)}

\* the place of the last character of the chain c-x-y... that opens at p
ChainEnd(body, p) ==
  Max({q \in p..Len(body) :
         /\ (q - p) % 2 = 0
         /\ \A r \in p..q : IF (r - p) % 2 = 1 THEN body[r] = 45 ELSE body[r] # 45})

\* the n-th opener from the left
Opener(body, n) ==
  CHOOSE p \in PairOpeners(body) :
    Cardinality({q \in PairOpeners(body) : q < p}) = n - 1

\* the literal pair of a hyphen before the closing bracket
TrailingHyphen(body) == IF body[Len(body)] = 45 THEN <<45>> ELSE <<>>

ExpectedLows(body) ==
  [n \in 1..Cardinality(PairOpeners(body)) |-> body[Opener(body, n)]]
    \o TrailingHyphen(body)

ExpectedHighs(body) ==
  [n \in 1..Cardinality(PairOpeners(body)) |-> body[ChainEnd(body, Opener(body, n))]]
    \o TrailingHyphen(body)

\* C32: the class gives one edge; each character outside a range opens
\* the pair (c, c), a hyphen and a character put that character as the
\* high end of the last pair, a hyphen before the closing bracket is the
\* pair ('-', '-'), and the edge is negative iff the class opens with '^'
C32_ClassPairs ==
  re.pc = "class" =>
    /\ Cardinality(RangeEdges(re.f)) = 1
    /\ \A ft \in RangeEdges(re.f) :
         /\ ft.start = ExpectedLows(ClassBody(re.pattern))
         /\ ft.end = ExpectedHighs(ClassBody(re.pattern))
         /\ ft.type = FSM_TRANS_NEGATIVE <=> re.pattern[2] = 94

\* [^a-b-] is parsed: a range, a hyphen before the bracket, negated
C32_Witness ==
  /\ re.pc = "class"
  /\ re.pattern = <<91, 94, 97, 45, 98, 45, 93>>
  /\ \E ft \in RangeEdges(re.f) :
       ft.start = <<97, 45>> /\ ft.end = <<98, 45>> /\ ft.type = FSM_TRANS_NEGATIVE

----------------------------------------------------------------------------
(* The operands of a composition as objects: regex.c *)

\* the machine with each of its transitions marked as an object of its own:
\* obj names the machine that owns it and its place there.  A transition
\* made by fsm_trans_create carries no mark: it is a new object.
AsObjects(f, owner) ==
  [f EXCEPT !.transitions =
     [k \in 1..Len(f.transitions) |->
        [j \in 1..Len(f.transitions[k]) |->
           [type |-> f.transitions[k][j].type,
            start |-> f.transitions[k][j].start,
            end |-> f.transitions[k][j].end,
            dest |-> f.transitions[k][j].dest,
            obj |-> <<owner, k, j>>]]]]

\* the places <<k, j>> of the transitions of f
Places(f) ==
  {<<k, j>> \in (1..Len(f.transitions)) \X (1..MaxStates) : j <= Len(f.transitions[k])}

\* the places of result that hold the object obj
Holders(result, obj) ==
  {pl \in Places(result) :
     LET ft == result.transitions[pl[1]][pl[2]]
     IN "obj" \in DOMAIN ft /\ ft.obj = obj}

\* `second` read after the call: a transition object that the call put into
\* `first` is read as the call left it there, every other one is as it was
SecondAfter(b, result) ==
  [b EXCEPT !.transitions =
     [k \in 1..Len(b.transitions) |->
        [j \in 1..Len(b.transitions[k]) |->
           LET held == Holders(result, b.transitions[k][j].obj)
           IN IF held = {} THEN b.transitions[k][j]
              ELSE LET pl == CHOOSE pl \in held : TRUE
                   IN result.transitions[pl[1]][pl[2]]]]]

FrameMachines == BaseMachines \cup MachineCatalog

InitFrame ==
  /\ \E a \in FrameMachines, b \in FrameMachines :
       /\ first = AsObjects(a, "first")
       /\ second = AsObjects(b, "second")
  /\ last = NoOp
  /\ Idle
  /\ RestIdle

\* fsm_concat(first, second) on two machines that are different objects
FrameConcat ==
  /\ last.op = "none"
  /\ LET result == fsm_concat(first, second)
     IN /\ first' = result
        /\ second' = SecondAfter(second, result)
  /\ last' = [op |-> "concat", into |-> "first", a |-> first, b |-> second]
  /\ UNCHANGED <<srch, lex, lexrun, io, chk, re>>

\* fsm_union(first, second) on two machines that are different objects
FrameUnion ==
  /\ last.op = "none"
  /\ LET result == fsm_union(first, second)
     IN /\ first' = result
        /\ second' = SecondAfter(second, result)
  /\ last' = [op |-> "union", into |-> "first", a |-> first, b |-> second]
  /\ UNCHANGED <<srch, lex, lexrun, io, chk, re>>

NextFrame == FrameConcat \/ FrameUnion

SpecFrame == InitFrame /\ [][NextFrame]_vars

----------------------------------------------------------------------------
(* Claims about the operands of a composition (SpecFrame) *)

\* C33: fsm_concat and fsm_union leave `second` as it was and put none of
\* its transition objects into `first`; fsm_concat leaves the start state of
\* `first` and the destination of each transition `first` had as they were
C33_OperandsKeptApart ==
  last.op \in {"concat", "union"} =>
    /\ second = last.b
    /\ \A pl \in Places(last.b) :
         Holders(first, last.b.transitions[pl[1]][pl[2]].obj) = {}
    /\ last.op = "concat" =>
         /\ first.start = last.a.start
         /\ \A pl \in Places(last.a) :
              /\ pl \in Places(first)
              /\ first.transitions[pl[1]][pl[2]] = last.a.transitions[pl[1]][pl[2]]

\* fsm_concat has run on operands that both have transitions, and `first`
\* has got the states of `second`
C33_WitnessConcat ==
  /\ last.op = "concat"
  /\ Places(last.a) # {}
  /\ Places(last.b) # {}
  /\ Len(first.transitions) = Len(last.a.transitions) + Len(last.b.transitions)

\* fsm_union has run on operands that both have transitions
C33_WitnessUnion ==
  /\ last.op = "union"
  /\ Places(last.a) # {}
  /\ Places(last.b) # {}
  /\ first.start = Len(last.a.transitions) + Len(last.b.transitions)

C33_Witness == C33_WitnessConcat \/ C33_WitnessUnion

----------------------------------------------------------------------------
(* Claims about the reach of the lexer (SpecLex) *)

\* C34: yylex reads no more than the characters of the input: no simulator
\* is stepped on the terminator or behind it, and the length returned is at
\* most the length of the input
C34_LexWithinInput ==
  /\ lexrun.pc = "stepping" => lexrun.read <= Len(lexrun.input)
  /\ lexrun.pc = "returned" => lexrun.length <= Len(lexrun.input)

\* the second half of C34 alone: the length returned
LexLengthWithinInput ==
  lexrun.pc = "returned" => lexrun.length <= Len(lexrun.input)

\* C34 for the buffered driver, whose loop ends at the terminator
LexLengthWithinInputBuffered ==
  (lexrun.pc = "returned" /\ lexrun.driver = "buffered") =>
    lexrun.length <= Len(lexrun.input)

\* C35: when yylex reports a match its length is at least 1, also when a
\* pattern of the lexer accepts the empty string
C35_LexNoEmptyToken ==
  (lexrun.pc = "returned" /\ lexrun.token \in Tokens) => lexrun.length >= 1

\* a lexer with a pattern that accepts the empty string returned a match
C35_WitnessMatch ==
  /\ lexrun.pc = "returned"
  /\ \E i \in 1..Len(lex) : fsm_sim_nondet(lex[i].pattern, <<>>)
  /\ lexrun.token \in Tokens
  /\ lexrun.length >= 1

\* a lexer whose only pattern accepts the empty string and no other prefix
\* of the input returned no match
C35_WitnessNoMatch ==
  /\ lexrun.pc = "returned"
  /\ Len(lex) = 1
  /\ fsm_sim_nondet(lex[1].pattern, <<>>)
  /\ lexrun.input # <<>>
  /\ MatchLengths(lex, lexrun.input) = {}
  /\ lexrun.token \notin Tokens

C35_Witness == C35_WitnessMatch \/ C35_WitnessNoMatch

----------------------------------------------------------------------------
(* A simulation stepped by its caller: simulation.c *)

\* fsm_sim_nondet_begin(f, input); emptied tells whether the current list
\* has been empty at some point of the simulation
InitSim ==
  /\ \E f \in FrameMachines, input \in Inputs :
       LET s == fsm_sim_nondet_begin(f, input)
       IN chk = [pc |-> "begun", sim |-> s, emptied |-> s.curr = <<>>]
  /\ AlgebraIdle
  /\ srch = [pc |-> "idle"]
  /\ lex = <<>>
  /\ lexrun = [pc |-> "idle"]
  /\ io = [pc |-> "idle"]
  /\ re = [pc |-> "idle"]

\* fsm_sim_nondet_step(s) while characters are left, whatever
\* fsm_sim_nondet_state says
SimStep ==
  /\ chk.pc \in {"begun", "stepped"}
  /\ chk.sim.input # <<>>
  /\ LET s == fsm_sim_nondet_step(chk.sim)
     IN chk' = [pc |-> "stepped", sim |-> s, emptied |-> chk.emptied \/ chk.sim.curr = <<>>]
  /\ UNCHANGED <<first, second, last, srch, lex, lexrun, io, re>>

NextSim == SimStep

SpecSim == InitSim /\ [][NextSim]_vars

----------------------------------------------------------------------------
(* Claims about a stepped simulation (SpecSim) *)

\* C36: once the current list is empty it is empty after every later step,
\* and fsm_sim_nondet_state says REJECTED whatever input is left
C36_RejectedAbsorbing ==
  (chk.pc = "stepped" /\ chk.emptied) =>
    /\ chk.sim.curr = <<>>
    /\ fsm_sim_nondet_state(chk.sim) = FSM_SIM_REJECTED

\* the current list was empty, a step was made on it, and input is left
C36_Witness ==
  /\ chk.pc = "stepped"
  /\ chk.emptied
  /\ chk.sim.curr = <<>>
  /\ chk.sim.input # <<>>

----------------------------------------------------------------------------
(* The epsilon closure, one pass of its loop at a time: simulation.c *)

\* one pass of the while loop with a bug: a destination is queued again
\* although it is in the closure already
epsilon_closure_pass_no_closure_test(f, visit_queue, closure) ==
  LET d == Head(visit_queue)
      trans_list == f.transitions[d + 1]
      RECURSIVE scan(_, _)
      scan(i, queue) ==
        IF i > Len(trans_list) THEN queue
        ELSE IF /\ fsm_trans_check(trans_list[i], EPSILON)
                /\ ~InList(queue, trans_list[i].dest)
             THEN scan(i + 1, Append(queue, trans_list[i].dest))
             ELSE scan(i + 1, queue)
  IN [visit_queue |-> scan(1, Tail(visit_queue)), closure |-> Append(closure, d)]

\* one pass of the while loop of fsm_sim_nondet_epsilon_closure: the front
\* of the queue goes into the closure, and the destinations of its
\* transitions that take EPSILON are queued unless queued or in the closure
epsilon_closure_pass(f, visit_queue, closure) ==
  LET d == Head(visit_queue)
      marked == Append(closure, d)
      trans_list == f.transitions[d + 1]
      RECURSIVE scan(_, _)
      scan(i, queue) ==
        IF i > Len(trans_list) THEN queue
        ELSE IF /\ fsm_trans_check(trans_list[i], EPSILON)
                /\ ~InList(queue, trans_list[i].dest)
                /\ ~InList(marked, trans_list[i].dest)
             THEN scan(i + 1, Append(queue, trans_list[i].dest))
             ELSE scan(i + 1, queue)
  IN [visit_queue |-> scan(1, Tail(visit_queue)), closure |-> marked]

\* ()*  (a*)*  ([^a]*)*: machines with a cycle of epsilon transitions
CycleMachines ==
  { fsm_kleene(EmptyStringFsm), fsm_kleene(M_a_star), fsm_kleene(M_not_a_star) }

\* entry of fsm_sim_nondet_epsilon_closure(f, state): the state is queued
InitClosure ==
  /\ \E f \in FrameMachines \cup CycleMachines :
       \E state \in 0..(NumStates(f) - 1) :
         chk = [pc |-> "closing", f |-> f, state |-> state,
                visit_queue |-> <<state>>, closure |-> <<>>]
  /\ AlgebraIdle
  /\ srch = [pc |-> "idle"]
  /\ lex = <<>>
  /\ lexrun = [pc |-> "idle"]
  /\ io = [pc |-> "idle"]
  /\ re = [pc |-> "idle"]

\* while (al_length(visit_queue) > 0): one pass.  The cap on the closure
\* is past what a list without repetition can hold
ClosurePass ==
  /\ chk.pc = "closing"
  /\ Len(chk.visit_queue) > 0
  /\ Len(chk.closure) <= MaxStates + 1
  /\ LET r == epsilon_closure_pass(chk.f, chk.visit_queue, chk.closure)
     IN chk' = [chk EXCEPT !.visit_queue = r.visit_queue, !.closure = r.closure]
  /\ UNCHANGED <<first, second, last, srch, lex, lexrun, io, re>>

\* the queue is empty: return closure
ClosureReturn ==
  /\ chk.pc = "closing"
  /\ Len(chk.visit_queue) = 0
  /\ chk' = [chk EXCEPT !.pc = "closed"]
  /\ UNCHANGED <<first, second, last, srch, lex, lexrun, io, re>>

NextClosure == ClosurePass \/ ClosureReturn

\* the loop runs on without a pause: a pass that can be made is made
SpecClosure == InitClosure /\ [][NextClosure]_vars /\ WF_vars(NextClosure)

----------------------------------------------------------------------------
(* Claims about the closure loop (SpecClosure) *)

\* state k lies on a cycle of epsilon transitions
OnEpsilonCycle(f, k) ==
  \E pl \in Places(f) :
    /\ pl[1] = k + 1
    /\ IsEpsilonEdge(f.transitions[pl[1]][pl[2]])
    /\ k \in EpsilonReach(f, {f.transitions[pl[1]][pl[2]].dest})

\* C37: fsm_sim_nondet_epsilon_closure returns, also on a machine with a
\* cycle of epsilon transitions, and the list it returns has each state at
\* most once, the state asked for first
C37_ClosureTerminates ==
  <>(/\ chk.pc = "closed"
     /\ NoDuplicates(chk.closure)
     /\ chk.closure[1] = chk.state)

\* the loop and the whole call give the same list
ClosurePassesAgree ==
  chk.pc = "closed" =>
    chk.closure = fsm_sim_nondet_epsilon_closure(chk.f, chk.state)

\* the closure of a state on an epsilon cycle has been returned
C37_Witness ==
  /\ chk.pc = "closed"
  /\ OnEpsilonCycle(chk.f, chk.state)
  /\ Len(chk.closure) >= 2

----------------------------------------------------------------------------
(* The search running to its end: regex/search.c *)

\* the inner while of fsm_search: the number of calls of
\* fsm_sim_nondet_step it makes on the simulation begun at `start`
SearchInnerSteps(f, text, start) ==
  LET RECURSIVE loop(_, _, _)
      loop(sim, length, res) ==
        IF start + length < Len(text) /\ res # FSM_SIM_REJECTED
        THEN LET stepped == fsm_sim_nondet_step(sim)
                 r == fsm_sim_nondet_state(stepped)
             IN IF r = FSM_SIM_ACCEPTED \/ r = FSM_SIM_REJECTED THEN length + 1
                ELSE loop(stepped, length + 1, r)
        ELSE length
  IN loop(fsm_sim_nondet_begin(f, SubSeq(text, start + 1, Len(text))), 0, -1)

\* the loops of fsm_search run on without a pause: the return at the end
\* of the text is taken when it is due, and so is an iteration of the outer
\* while, whose weak fairness is written out with the guard of
\* SearchIteration in the place of ENABLED <<SearchIteration>>_vars
SpecSearchFair ==
  /\ InitSearch /\ [][NextSearch]_vars
  /\ WF_vars(SearchReturn)
  /\ \/ []<>(~(srch.pc = "loop" /\ srch.start < Len(srch.text)))
     \/ []<><<SearchIteration>>_vars

----------------------------------------------------------------------------
(* Claims about the end of a search (SpecSearchFair) *)

\* C38: fsm_search returns, whatever greedy and overlap are: each outer
\* iteration that does not return moves the start index forward, each hit
\* has a length of at least 1 and ends inside the text, and the simulation
\* is stepped at most once for each character left behind the start index
C38_SearchTerminates ==
  /\ <>(srch.pc = "returned")
  /\ [][srch'.pc = "loop" => srch'.start > srch.start]_vars
  /\ [](\A k \in 1..Len(srch.results) :
          /\ srch.results[k].length >= 1
          /\ srch.results[k].start + srch.results[k].length <= Len(srch.text))
  /\ [](srch.iter_start >= 0 =>
          SearchInnerSteps(srch.f, srch.text, srch.iter_start)
            <= Len(srch.text) - srch.iter_start)

\* a search that is not greedy has returned at the end of the text after
\* iterations with and without a hit
C38_Witness ==
  /\ srch.pc = "returned"
  /\ ~srch.greedy
  /\ srch.start >= Len(srch.text)
  /\ Len(srch.results) >= 1
  /\ Len(srch.results) < Len(srch.text)
  /\ srch.results[Len(srch.results)].start + srch.results[Len(srch.results)].length
       = Len(srch.text)

----------------------------------------------------------------------------
(* Claims about the number of states of a composition (Spec) *)

\* state k is in the accepting list of f
InAccepting(f, k) == \E i \in 1..Len(f.accepting) : f.accepting[i] = k

\* C39: a concatenation has the states of both operands; a union has one
\* more, the last, which is the start and is not accepting; a star has one
\* more than its operand, the last, which is the start and is accepting;
\* the accepting list of a union or of a star names no state twice when the
\* lists of the operands name none twice
C39_StateCounts ==
  /\ last.op = "concat" =>
       NumStates(Result) = NumStates(last.a) + NumStates(last.b)
  /\ last.op = "union" =>
       /\ NumStates(Result) = NumStates(last.a) + NumStates(last.b) + 1
       /\ Result.start = NumStates(Result) - 1
       /\ ~InAccepting(Result, Result.start)
       /\ (NoDuplicates(last.a.accepting) /\ NoDuplicates(last.b.accepting)
             => NoDuplicates(Result.accepting))
  /\ last.op = "kleene" =>
       /\ NumStates(Result) = NumStates(last.a) + 1
       /\ Result.start = NumStates(Result) - 1
       /\ InAccepting(Result, Result.start)
       /\ (NoDuplicates(last.a.accepting) => NoDuplicates(Result.accepting))

\* a concatenation and a union of operands that are compositions themselves
C39_WitnessConcat ==
  /\ last.op = "concat"
  /\ NumStates(last.a) >= 2
  /\ NumStates(last.b) >= 2
  /\ NumStates(Result) >= 5

C39_WitnessUnion ==
  /\ last.op = "union"
  /\ NumStates(last.a) >= 2
  /\ NumStates(last.b) >= 2
  /\ Len(Result.accepting) >= 2

\* the star of a union: the operand has five states and two accepting
\* states, and its start is its last state
C39_Witness ==
  /\ last.op = "kleene"
  /\ NumStates(last.a) >= 5
  /\ last.a.start = NumStates(last.a) - 1
  /\ Len(last.a.accepting) >= 2
  /\ NoDuplicates(last.a.accepting)
  /\ Len(Result.accepting) >= 3

----------------------------------------------------------------------------
(* Claims about the ranges of an edge (SpecCheck) *)

\* some endpoint of the lists is the character with code 0
HasNulEndpoint(starts, ends) ==
  \E i \in 1..Len(starts) : starts[i] = 0 \/ ends[i] = 0

\* C40: every range an edge was created with counts in fsm_trans_check,
\* also a range behind one with the character of code 0 as an endpoint: a
\* range that holds c makes the positive edge accept c and the negative
\* edge refuse it; and the copy of an edge has all its ranges
C40_AllRangesConsidered ==
  chk.pc = "checked" =>
    /\ \A k \in 1..Len(chk.starts) :
         (chk.starts[k] <= chk.c /\ chk.c <= chk.ends[k])
           => (chk.positive /\ ~chk.negative)
    /\ chk.copy.start = chk.starts
    /\ chk.copy.end = chk.ends

\* the same for the edges none of whose endpoints is the character with
\* code 0
AllRangesConsideredWithoutNul ==
  (chk.pc = "checked" /\ ~HasNulEndpoint(chk.starts, chk.ends)) =>
    /\ \A k \in 1..Len(chk.starts) :
         (chk.starts[k] <= chk.c /\ chk.c <= chk.ends[k])
           => (chk.positive /\ ~chk.negative)
    /\ chk.copy.start = chk.starts
    /\ chk.copy.end = chk.ends

\* the copy has fewer ranges than the edge only behind an endpoint with
\* code 0 in the list of low endpoints
CopyStopsAtNulLow ==
  chk.pc = "checked" =>
    /\ Len(chk.copy.start) = RangeCount(chk.starts)
    /\ chk.copy.start = SubSeq(chk.starts, 1, RangeCount(chk.starts))
    /\ chk.copy.end = SubSeq(chk.ends, 1, RangeCount(chk.starts))


=============================================================================
